---- MODULE Spec2Model ----
(***************************************************************************)
(* Policy automation engine of PiOneData/AssetInfo                         *)
(* (src/server/services/policy/engine.ts, class PolicyEngine).             *)
(*                                                                         *)
(* Specifications:                                                         *)
(*   Spec      the engine as written: handleEvent with the policy lookup   *)
(*             of the source (findMatchingPolicies, which returns []).     *)
(*   SpecStore the same handleEvent loop fed by the persistence-backed     *)
(*             lookup the source names in a comment (line 106).            *)
(*   SpecEval  evaluateConditions applied to drawn conditions/payloads.    *)
(*   SpecGate  canExecutePolicy applied to drawn policies and clock values.*)
(*   SpecExec  executePolicy applied to drawn action lists and handler     *)
(*             outcomes.                                                   *)
(*   SpecReview the access review campaign engine (src/unnamed/part_004):  *)
(*             campaigns, review items, decisions and completion, its      *)
(*             events delivered to the policy engine.                      *)
(*   SpecBulk  submitBulkDecision applied to drawn item lists and faults.  *)
(*   SpecShadow the Shadow IT detector (engine.ts, ShadowITDetector):      *)
(*             processApp on the catalog, its events delivered.            *)
(*   SpecProcess analyzeApp and processApp applied to drawn catalogs and   *)
(*             discovered apps, and processApp applied a second time to    *)
(*             the same app.                                               *)
(*   SpecBatch processApps applied to drawn batches of apps, with storage  *)
(*             calls that may reject.                                      *)
(*   SpecMatch findMatchingApp applied to drawn catalogs and apps.         *)
(*   SpecSteps executePolicy step by step: the loop and the handler calls  *)
(*             it waits for.                                               *)
(*   SpecRisk  calculateRiskLevel applied to drawn apps and access grants. *)
(*   SpecConcurrent concurrent submitDecision calls on items of one        *)
(*             campaign, interleaved at every storage call.                *)
(***************************************************************************)
EXTENDS Integers, Sequences, FiniteSets, TLC

VARIABLES
  now,         \* Date.now(), in milliseconds
  policies,    \* the persisted policies, by id (the engine only reads them)
  executions,  \* the executions started by handleEvent, oldest first
  lastEvent,   \* what the last handleEvent call did (its console trace)
  evalCall,    \* one call of evaluateConditions: arguments and result
  gateCall,    \* one call of canExecutePolicy: arguments and result
  execCall,    \* one call of executePolicy: arguments and result
  unitCall,    \* one call of a function of the detector or of the review
               \* engine on a store drawn for it: arguments and result
  catalog,     \* the SaaS app catalog of the tenant, in creation order
  lastProcess, \* what the last call of the Shadow IT detector did
  campaigns,   \* the access review campaigns, in creation order
  reviewItems, \* the access review items, in creation order
  lastReview   \* what the last call of the access review engine did

engineVars == <<now, policies, executions, lastEvent>>

callVars == <<evalCall, gateCall, execCall, unitCall>>

detectorVars == <<catalog, lastProcess>>

reviewVars == <<campaigns, reviewItems, lastReview>>

vars == <<engineVars, callVars, detectorVars, reviewVars>>

(***************************************************************************)
(* JavaScript values, tagged by typeof (arrays and null apart).            *)
(* An object is the sequence of its entries, in Object.entries order.      *)
(***************************************************************************)
Num(n) == [t |-> "number", v |-> n]

Str(s) == [t |-> "string", v |-> s]

Arr(items) == [t |-> "array", v |-> items]

Obj(entries) == [t |-> "object", v |-> entries]

Undefined == [t |-> "undefined", v |-> 0]

Null == [t |-> "null", v |-> 0]

\* ToBoolean: what `if (x)`, `!x` and `x && y` see
Truthy(x) ==
  CASE x.t \in {"undefined", "null"} -> FALSE
    [] x.t = "number" -> x.v # 0
    [] x.t = "string" -> x.v # ""
    [] OTHER -> TRUE

\* obj[key]: the value of the entry named key, undefined when there is none
Get(obj, key) ==
  IF \E i \in 1..Len(obj.v) : obj.v[i][1] = key
    THEN obj.v[CHOOSE i \in 1..Len(obj.v) : obj.v[i][1] = key][2]
    ELSE Undefined

\* a === b on primitives
StrictEquals(a, b) ==
  /\ a.t = b.t
  /\ (a.t \in {"undefined", "null"} \/ a.v = b.v)

\* The strings of this model, in code-unit order; none is numeric.
Labels == <<"critical", "high", "low", "t1", "t2">>

Rank(s) == CHOOSE i \in 1..Len(Labels) : Labels[i] = s

\* a < b and a <= b: two strings compare by code units, two numbers by value;
\* any other pair goes through ToNumber, where undefined and a non-numeric
\* string give NaN, and every comparison with NaN is false.  (null, which
\* ToNumber takes to 0, is not among the operands and payload values drawn.)
JsLess(a, b) ==
  \/ a.t = "number" /\ b.t = "number" /\ a.v < b.v
  \/ a.t = "string" /\ b.t = "string" /\ Rank(a.v) < Rank(b.v)

JsLessEq(a, b) ==
  \/ a.t = "number" /\ b.t = "number" /\ a.v <= b.v
  \/ a.t = "string" /\ b.t = "string" /\ Rank(a.v) <= Rank(b.v)

\* Array.prototype.includes
Includes(arr, x) == \E i \in 1..Len(arr.v) : StrictEquals(arr.v[i], x)

(***************************************************************************)
(* evaluateConditions (engine.ts 140-193)                                  *)
(***************************************************************************)
\* OperatorPasses with $gte compared as $gt
OperatorPassesGteAsGt(op, dataValue, opValue) ==
  CASE op = "$gt" -> JsLess(opValue, dataValue)
    [] op = "$gte" -> JsLess(opValue, dataValue)
    [] op = "$lt" -> JsLess(dataValue, opValue)
    [] op = "$lte" -> JsLessEq(dataValue, opValue)
    [] op = "$eq" -> StrictEquals(dataValue, opValue)
    [] op = "$ne" -> ~StrictEquals(dataValue, opValue)
    [] OTHER -> TRUE

\* the switch of lines 161-182 for one operator: FALSE where the code
\* returns false, TRUE where it breaks out of the switch and goes on
OperatorPasses(op, dataValue, opValue) ==
  CASE op = "$gt" -> JsLess(opValue, dataValue)
    [] op = "$gte" -> JsLessEq(opValue, dataValue)
    [] op = "$lt" -> JsLess(dataValue, opValue)
    [] op = "$lte" -> JsLessEq(dataValue, opValue)
    [] op = "$eq" -> StrictEquals(dataValue, opValue)
    [] op = "$ne" -> ~StrictEquals(dataValue, opValue)
    [] OTHER -> TRUE   \* default: console.warn, nothing returned

\* the inner loop over Object.entries(operators), from entry i on
RECURSIVE OperatorsPass(_, _, _)
OperatorsPass(operators, dataValue, i) ==
  IF i > Len(operators.v) THEN TRUE
  ELSE IF ~OperatorPasses(operators.v[i][1], dataValue, operators.v[i][2]) THEN FALSE
  ELSE OperatorsPass(operators, dataValue, i + 1)

\* the body of the outer loop for one [key, value]: FALSE where it returns false
ConditionPasses(key, value, triggerData) ==
  IF value.t = "array" THEN Includes(value, Get(triggerData, key))
  ELSE IF value.t = "object" THEN OperatorsPass(value, Get(triggerData, key), 1)
  ELSE StrictEquals(Get(triggerData, key), value)

\* the outer loop over Object.entries(conditions), from entry i on
RECURSIVE ConditionsPass(_, _, _)
ConditionsPass(conditions, triggerData, i) ==
  IF i > Len(conditions.v) THEN TRUE
  ELSE IF ~ConditionPasses(conditions.v[i][1], conditions.v[i][2], triggerData) THEN FALSE
  ELSE ConditionsPass(conditions, triggerData, i + 1)

evaluateConditions(policy, context) ==
  IF ~Truthy(policy.conditions) THEN TRUE
  ELSE ConditionsPass(policy.conditions, context.triggerData, 1)

(***************************************************************************)
(* canExecutePolicy (engine.ts 113-135)                                    *)
(***************************************************************************)
SecondsPerMinute == 60

MsPerSecond == 1000

\* policy.lastExecutedAt of a policy that never ran (null)
NoDate == -1

\* InCooldown with the end of the window inside it
InCooldownInclusive(policy, at) ==
  /\ policy.cooldownMinutes # 0
  /\ policy.lastExecutedAt # NoDate
  /\ at - policy.lastExecutedAt <= policy.cooldownMinutes * SecondsPerMinute * MsPerSecond

\* the cooldown check of lines 115-122: TRUE where the code returns false
InCooldown(policy, at) ==
  /\ policy.cooldownMinutes # 0
  /\ policy.lastExecutedAt # NoDate
  /\ LET cooldownMs == policy.cooldownMinutes * SecondsPerMinute * MsPerSecond
         timeSinceLastExecution == at - policy.lastExecutedAt
     IN  timeSinceLastExecution < cooldownMs

\* the daily limit check of lines 125-132: TRUE where the code returns
\* false.  The block computes `today` and returns nothing: the query and the
\* comparison are comments.
OverDailyLimit(policy, at) == FALSE

\* at is Date.now() of the call
canExecutePolicy(policy, at) ==
  IF InCooldown(policy, at) THEN FALSE
  ELSE IF OverDailyLimit(policy, at) THEN FALSE
  ELSE TRUE

(***************************************************************************)
(* executePolicy (engine.ts 198-283)                                       *)
(***************************************************************************)
\* The action types with a handler in the ActionRegistry.  The registry
\* (./action-registry) is not among the sources; the spec lists its types.
RegisteredTypes == {"notify", "escalate"}

\* this.actionRegistry.getHandler(action.type) finds a handler
HasHandler(type) == type \in RegisteredTypes

\* What handler.execute does: "ok" returns {success: true}, "fail" returns
\* {success: false, error}, "throw" throws an Error.
Outcomes == {"ok", "fail", "throw"}

NoError == "none"

HandlerError == "handler reported failure"

ThrownMessage == "handler threw"

\* reading action.type of an action that is null (lines 221 and 252)
TypeErrorMessage == "Cannot read properties of null"

\* the execution record of lines 202-211 and the results list of line 216;
\* thrown is the exception leaving executePolicy, if any
NewExecution ==
  [status |-> "running", actionsExecuted |-> 0, actionsSucceeded |-> 0,
   actionsFailed |-> 0, results |-> << >>, thrown |-> NoError]

\* the try block of lines 220-250 for one action; an exception of
\* handler.execute leaves it in thrown
TryAction(ex, action, outcome) ==
  IF action = Null THEN [ex EXCEPT !.thrown = TypeErrorMessage]
  ELSE IF ~HasHandler(action.type) THEN
    \* lines 224-233: recorded as failed, `continue` skips actionsExecuted++
    [ex EXCEPT !.results = Append(@, [actionType |-> action.type, success |-> FALSE,
                                      error |-> "No handler found"]),
               !.actionsFailed = @ + 1]
  ELSE IF outcome = "throw" THEN [ex EXCEPT !.thrown = ThrownMessage]
  ELSE IF outcome = "ok" THEN
    [ex EXCEPT !.results = Append(@, [actionType |-> action.type, success |-> TRUE,
                                      error |-> NoError]),
               !.actionsSucceeded = @ + 1,
               !.actionsExecuted = @ + 1]
  ELSE
    [ex EXCEPT !.results = Append(@, [actionType |-> action.type, success |-> FALSE,
                                      error |-> HandlerError]),
               !.actionsFailed = @ + 1,
               !.actionsExecuted = @ + 1]

\* the catch block of lines 251-260; its first statement reads
\* action.type, which throws out of the function when the action is null
CatchAction(ex, action) ==
  IF action = Null THEN [ex EXCEPT !.thrown = TypeErrorMessage] ELSE
  [ex EXCEPT !.results = Append(@, [actionType |-> action.type, success |-> FALSE,
                                    error |-> ex.thrown]),
             !.actionsFailed = @ + 1,
             !.actionsExecuted = @ + 1,
             !.thrown = NoError]

\* RunAction without the catch block
RunActionNoCatch(ex, action, outcome) == TryAction(ex, action, outcome)

\* one turn of the loop of lines 219-261
RunAction(ex, action, outcome) ==
  LET tried == TryAction(ex, action, outcome)
  IN  IF tried.thrown # NoError THEN CatchAction(tried, action) ELSE tried

\* the loop of lines 219-261 from action i on; an exception that leaves a
\* turn ends the loop
RECURSIVE RunActions(_, _, _, _)
RunActions(ex, actions, outcomes, i) ==
  IF i > Len(actions) \/ ex.thrown # NoError THEN ex
  ELSE RunActions(RunAction(ex, actions[i], outcomes[i]), actions, outcomes, i + 1)

\* FinalStatus with 'partial' and 'failed' exchanged
FinalStatusSwapped(ex) ==
  IF ex.actionsFailed > 0
    THEN (IF ex.actionsSucceeded > 0 THEN "failed" ELSE "partial")
    ELSE "success"

\* finalStatus, lines 264-266
FinalStatus(ex) ==
  IF ex.actionsFailed > 0
    THEN (IF ex.actionsSucceeded > 0 THEN "partial" ELSE "failed")
    ELSE "success"

\* The PolicyExecutionResult of lines 275-282, with the finalStatus the
\* function logs (line 273) and whether it threw instead of returning.
\* outcomes[i] is what the handler of action i does when it is called.
executePolicy(policy, context, outcomes, at) ==
  LET ex == RunActions(NewExecution, policy.actions, outcomes, 1)
      finalStatus == FinalStatus(ex)
  IN  IF ex.thrown # NoError
        THEN [threw |-> TRUE, error |-> ex.thrown,
              success |-> FALSE, executionId |-> at, status |-> "running",
              actionsExecuted |-> ex.actionsExecuted,
              actionsSucceeded |-> ex.actionsSucceeded,
              actionsFailed |-> ex.actionsFailed, results |-> ex.results]
        ELSE [threw |-> FALSE, error |-> NoError,
              success |-> (finalStatus = "success"), executionId |-> at,
              status |-> finalStatus,
              actionsExecuted |-> ex.actionsExecuted,
              actionsSucceeded |-> ex.actionsSucceeded,
              actionsFailed |-> ex.actionsFailed, results |-> ex.results]

(***************************************************************************)
(* handleEvent (engine.ts 68-98) and the policy lookup                     *)
(***************************************************************************)
\* findMatchingPolicies (lines 103-108): the query is a comment, the
\* function returns []
findMatchingPolicies(triggerType, tenantId) == << >>

PolicyIds == {"p1", "p2"}

IdOrder == <<"p1", "p2">>

\* storage.getAutomatedPolicies(tenantId, {triggerType, enabled: true}), the
\* query of line 106: the enabled policies of the tenant that listen to the
\* trigger, in id order
RECURSIVE StoredFrom(_, _, _)
StoredFrom(triggerType, tenantId, i) ==
  IF i > Len(IdOrder) THEN << >>
  ELSE LET policy == policies[IdOrder[i]]
           rest == StoredFrom(triggerType, tenantId, i + 1)
       IN  IF /\ policy.enabled
              /\ policy.triggerType = triggerType
              /\ tenantId.t = "string"
              /\ policy.tenantId = tenantId.v
             THEN <<policy>> \o rest
             ELSE rest

getAutomatedPolicies(tenantId, triggerType) == StoredFrom(triggerType, tenantId, 1)

\* what one handleEvent call did: the policies found, those it ran, those
\* the gate refused, those whose error line 92 logged, the error line 96
\* logged, and the exception in flight
NewTrace(triggerType, triggerData, at) ==
  [triggerType |-> triggerType, triggerData |-> triggerData, at |-> at,
   dropped |-> FALSE, found |-> << >>, executed |-> << >>, skipped |-> << >>,
   errors |-> << >>, handlingError |-> NoError, raised |-> NoError]

\* lines 86-87 once executePolicy has returned or thrown
AfterExecution(trace, result) ==
  IF result.threw THEN [trace EXCEPT !.raised = result.error] ELSE trace

\* the try block of lines 85-90 for one policy
TryPolicy(trace, policy, outcomes, at) ==
  IF canExecutePolicy(policy, at)
    THEN AfterExecution([trace EXCEPT !.executed = Append(@, policy.id)],
                        executePolicy(policy,
                                      [tenantId |-> Get(trace.triggerData, "tenantId"),
                                       triggerEvent |-> trace.triggerType,
                                       triggerData |-> trace.triggerData],
                                      outcomes, at))
    ELSE [trace EXCEPT !.skipped = Append(@, policy.id)]

\* the catch block of lines 91-93, entered when the try block raised
CatchPolicy(tried, policy) ==
  IF tried.raised = NoError THEN tried
  ELSE [tried EXCEPT !.errors = Append(@, policy.id), !.raised = NoError]

\* RunPolicy without the catch block
RunPolicyNoCatch(trace, policy, outcomes, at) == TryPolicy(trace, policy, outcomes, at)

\* one turn of the loop of lines 84-94
RunPolicy(trace, policy, outcomes, at) ==
  CatchPolicy(TryPolicy(trace, policy, outcomes, at), policy)

\* the loop of lines 84-94 from policy i of found on; an exception that
\* leaves a turn ends the loop
RECURSIVE PolicyLoop(_, _, _, _, _)
PolicyLoop(trace, found, outcomes, at, i) ==
  IF i > Len(found) \/ trace.raised # NoError THEN trace
  ELSE PolicyLoop(RunPolicy(trace, found[i], outcomes, at), found, outcomes, at, i + 1)

RECURSIVE IdsOf(_, _)
IdsOf(found, i) == IF i > Len(found) THEN << >> ELSE <<found[i].id>> \o IdsOf(found, i + 1)

\* the try block of lines 70-94
TryEvent(found, triggerType, triggerData, outcomes, at) ==
  IF ~Truthy(Get(triggerData, "tenantId"))
    THEN [NewTrace(triggerType, triggerData, at) EXCEPT !.dropped = TRUE]
    ELSE PolicyLoop([NewTrace(triggerType, triggerData, at) EXCEPT !.found = IdsOf(found, 1)],
                    found, outcomes, at, 1)

\* handleEvent without the tenantId check of lines 73-76
handleEventAnyTenant(found, triggerType, triggerData, outcomes, at) ==
  PolicyLoop([NewTrace(triggerType, triggerData, at) EXCEPT !.found = IdsOf(found, 1)],
             found, outcomes, at, 1)

\* the catch block of lines 95-97, entered when the try block raised: it
\* ends every exception
CatchEvent(tried) ==
  IF tried.raised = NoError THEN tried
  ELSE [tried EXCEPT !.handlingError = tried.raised, !.raised = NoError]

\* found is what the lookup of line 79 returns for the event's tenant
handleEvent(found, triggerType, triggerData, outcomes, at) ==
  CatchEvent(TryEvent(found, triggerType, triggerData, outcomes, at))

\* the execution records of the policies a handleEvent call ran
RECURSIVE Started(_, _, _)
Started(trace, at, i) ==
  IF i > Len(trace.executed) THEN << >>
  ELSE <<[policyId |-> trace.executed[i], startedAt |-> at,
          triggerEvent |-> trace.triggerType, triggerData |-> trace.triggerData]>>
       \o Started(trace, at, i + 1)

(***************************************************************************)
(* Inputs                                                                  *)
(***************************************************************************)
MaxOperators == 2

MaxActions == 3

MaxCooldown == 2

MaxExecutions == 2

TickMs == 30000

MaxNow == 60000

\* the entries of an object, those with an undefined value left out
Entries(pairs) == SelectSeq(pairs, LAMBDA e : e[2] # Undefined)

\* event payloads: tenantId, riskScore, riskLevel, each possibly missing
Payload(tenantId, riskScore, riskLevel) ==
  Obj(Entries(<< <<"tenantId", tenantId>>, <<"riskScore", riskScore>>,
                 <<"riskLevel", riskLevel>> >>))

KnownOperators == {"$gt", "$gte", "$lt", "$lte", "$eq", "$ne"}

\* the [operator, operand] entries drawn for an object predicate
OperatorEntries ==
  {<<op, operand>> : op \in KnownOperators, operand \in {Num(70), Str("high")}}
    \cup {<<"$foo", Num(1)>>}

\* object predicates: up to MaxOperators entries, no operator twice
ObjectPredicates ==
  {Obj(ops) : ops \in
     {q \in UNION {[1..n -> OperatorEntries] : n \in 0..MaxOperators} :
        \A i, j \in 1..Len(q) : i # j => q[i][1] # q[j][1]}}

ScorePredicates ==
  ObjectPredicates
    \cup {Arr(<< >>), Arr(<<Num(69), Num(70)>>), Num(70), Str("high"), Null}

LevelPredicates ==
  {Undefined, Str("high"), Arr(<<Str("critical"), Str("high")>>),
   Obj(<< <<"$ne", Str("low")>> >>)}

\* policy.conditions: missing, null, or an object on riskScore and riskLevel
ConditionInputs ==
  {Undefined, Null}
    \cup {Obj(Entries(<< <<"riskScore", sp>>, <<"riskLevel", lp>> >>)) :
            sp \in ScorePredicates \cup {Undefined}, lp \in LevelPredicates}

PayloadInputs ==
  {Payload(Str("t1"), score, level) :
     score \in {Undefined, Num(69), Num(70), Num(71), Str("high")},
     level \in {Undefined, Str("high"), Str("low")}}

ActionTypes == {"notify", "escalate", "purge"}

\* policy.actions: up to MaxActions actions; "purge" has no handler
ActionLists ==
  UNION {[1..n -> {[type |-> ty] : ty \in ActionTypes}] : n \in 0..MaxActions}

\* what each handler call of one executePolicy run does, by action position
OutcomeLists == [1..MaxActions -> Outcomes]

\* the same for the handlers called while one event is handled: all return
\* success, all return failure, or all throw
EventOutcomes == {[i \in 1..MaxActions |-> o] : o \in Outcomes}

NoCall == [done |-> FALSE]

TriggerTypes == {"app_discovered", "license_unused"}

\* the payloads of the events published: with and without tenantId
EventPayloads ==
  {Payload(tenantId, riskScore, Undefined) :
     tenantId \in {Undefined, Str("t1"), Str("t2")}, riskScore \in {Num(69), Num(70)}}

ScoreAtLeast70 == Obj(<< <<"riskScore", Obj(<< <<"$gte", Num(70)>> >>)>> >>)

\* the policies an administrator may have stored under an id.  A policy
\* with a lastExecutedAt has a cooldown to apply it to; the actions of a
\* policy are a JSON array, which may hold null.
StoredPolicies(id) ==
  IF id = "p1"
    THEN {[id |-> id, tenantId |-> "t1", triggerType |-> "app_discovered",
           enabled |-> en, conditions |-> co, actions |-> ac,
           cooldownMinutes |-> cd[1], lastExecutedAt |-> cd[2],
           maxExecutionsPerDay |-> mx] :
            en \in BOOLEAN, co \in {Null, ScoreAtLeast70},
            ac \in {<<[type |-> "notify"], [type |-> "purge"]>>, <<Null>>},
            cd \in {<<0, NoDate>>, <<1, NoDate>>, <<1, 0>>}, mx \in {0, 1}}
    ELSE {[id |-> id, tenantId |-> te, triggerType |-> tr,
           enabled |-> TRUE, conditions |-> Null,
           actions |-> <<[type |-> "notify"]>>,
           cooldownMinutes |-> 0, lastExecutedAt |-> NoDate,
           maxExecutionsPerDay |-> 0] :
            te \in {"t1", "t2"}, tr \in TriggerTypes}

NoTrace == NewTrace("none", Undefined, 0)

(***************************************************************************)
(* The engine: the clock and the events it handles                         *)
(***************************************************************************)
InitStore ==
  /\ now = 0
  /\ policies \in {f \in [PolicyIds -> UNION {StoredPolicies(id) : id \in PolicyIds}] :
                     \A id \in PolicyIds : f[id] \in StoredPolicies(id)}
  /\ executions = << >>
  /\ lastEvent = NoTrace

\* nothing discovered yet, no campaign yet
NoProcess ==
  [app |-> [name |-> << >>, vendor |-> << >>, websiteUrl |-> "",
            permissions |-> [scopes |-> 0, riskScore |-> 0, reasons |-> << >>]],
   created |-> FALSE, appId |-> 0, events |-> << >>]

DetectorIdle ==
  /\ catalog = << >>
  /\ lastProcess = NoProcess

ReviewIdle ==
  /\ campaigns = << >>
  /\ reviewItems = << >>
  /\ lastReview = [op |-> "none", raised |-> NoError, events |-> << >>]

Init ==
  /\ InitStore
  /\ evalCall = NoCall
  /\ gateCall = NoCall
  /\ execCall = NoCall
  /\ unitCall = NoCall
  /\ DetectorIdle
  /\ ReviewIdle

Tick ==
  /\ now + TickMs <= MaxNow
  /\ now' = now + TickMs
  /\ UNCHANGED <<policies, executions, lastEvent, evalCall, gateCall, execCall, unitCall, detectorVars, reviewVars>>

\* an event of a subscribed topic reaches handleEvent (lines 57-62)
HandleEvent ==
  \E triggerType \in TriggerTypes, triggerData \in EventPayloads, outcomes \in EventOutcomes :
    \E trace \in {handleEvent(findMatchingPolicies(triggerType, Get(triggerData, "tenantId")),
                               triggerType, triggerData, outcomes, now)} :
      /\ Len(executions) + Len(trace.executed) <= MaxExecutions
      /\ executions' = executions \o Started(trace, now, 1)
      /\ lastEvent' = trace
      /\ UNCHANGED <<now, policies, evalCall, gateCall, execCall, unitCall, detectorVars, reviewVars>>

\* the same, the lookup being the query of the store
HandleEventStored ==
  \E triggerType \in TriggerTypes, triggerData \in EventPayloads, outcomes \in EventOutcomes :
    \E trace \in {handleEvent(getAutomatedPolicies(Get(triggerData, "tenantId"), triggerType),
                               triggerType, triggerData, outcomes, now)} :
      /\ Len(executions) + Len(trace.executed) <= MaxExecutions
      /\ executions' = executions \o Started(trace, now, 1)
      /\ lastEvent' = trace
      /\ UNCHANGED <<now, policies, evalCall, gateCall, execCall, unitCall, detectorVars, reviewVars>>

Next == Tick \/ HandleEvent

Spec == Init /\ [][Next]_vars

NextStore == Tick \/ HandleEventStored

SpecStore == Init /\ [][NextStore]_vars

(***************************************************************************)
(* The pure functions, each applied once to drawn arguments                *)
(***************************************************************************)
\* the engine at rest, for the specifications that only apply a function
EngineQuiet ==
  /\ now = 0
  /\ policies = [id \in PolicyIds |-> CHOOSE p \in StoredPolicies(id) : TRUE]
  /\ executions = << >>
  /\ lastEvent = NoTrace

Quiet ==
  /\ EngineQuiet
  /\ DetectorIdle
  /\ ReviewIdle

InitEval ==
  /\ Quiet
  /\ evalCall \in [conditions : ConditionInputs, triggerData : PayloadInputs,
                   done : {FALSE}, result : {FALSE}]
  /\ gateCall = NoCall
  /\ execCall = NoCall
  /\ unitCall = NoCall

EvaluateConditions ==
  /\ ~evalCall.done
  /\ evalCall' = [evalCall EXCEPT
       !.done = TRUE,
       !.result = evaluateConditions([conditions |-> evalCall.conditions],
                                     [triggerData |-> evalCall.triggerData])]
  /\ UNCHANGED <<now, policies, executions, lastEvent, gateCall, execCall, unitCall, detectorVars, reviewVars>>

NextEval == EvaluateConditions

SpecEval == InitEval /\ [][NextEval]_vars

\* the clock values around the ends of the cooldowns of a run at lastRun
GateTimes(lastRun) ==
  {t \in {lastRun + m * SecondsPerMinute * MsPerSecond + d :
            m \in 0..(MaxCooldown + 1), d \in {-1, 0, 1, TickMs}} : t >= lastRun /\ t >= 0}

InitGate ==
  /\ Quiet
  /\ evalCall = NoCall
  /\ \E cooldownMinutes \in 0..MaxCooldown, lastExecutedAt \in {NoDate, 0, TickMs},
        maxExecutionsPerDay \in {0, 1} :
       \E at \in GateTimes(lastExecutedAt) :
         gateCall = [policy |-> [cooldownMinutes |-> cooldownMinutes,
                                 lastExecutedAt |-> lastExecutedAt,
                                 maxExecutionsPerDay |-> maxExecutionsPerDay],
                     at |-> at, done |-> FALSE, result |-> FALSE]
  /\ execCall = NoCall
  /\ unitCall = NoCall

CanExecutePolicy ==
  /\ ~gateCall.done
  /\ gateCall' = [gateCall EXCEPT
       !.done = TRUE, !.result = canExecutePolicy(gateCall.policy, gateCall.at)]
  /\ UNCHANGED <<now, policies, executions, lastEvent, evalCall, execCall, unitCall, detectorVars, reviewVars>>

NextGate == CanExecutePolicy

SpecGate == InitGate /\ [][NextGate]_vars

InitExec ==
  /\ Quiet
  /\ evalCall = NoCall
  /\ gateCall = NoCall
  /\ execCall \in [actions : ActionLists, outcomes : OutcomeLists,
                   done : {FALSE}, result : {NoCall}]
  /\ unitCall = NoCall

ExecutePolicy ==
  /\ ~execCall.done
  /\ execCall' = [execCall EXCEPT
       !.done = TRUE,
       !.result = executePolicy([id |-> "p1", actions |-> execCall.actions],
                                [triggerEvent |-> "app_discovered"],
                                execCall.outcomes, now)]
  /\ UNCHANGED <<now, policies, executions, lastEvent, evalCall, gateCall, unitCall, detectorVars, reviewVars>>

NextExec == ExecutePolicy

SpecExec == InitExec /\ [][NextExec]_vars

(***************************************************************************)
(* The event bus between the engines (policyEngine.getEventSystem())        *)
(***************************************************************************)
\* the topics initializeEventHandlers subscribes to (engine.ts 57-62), each
\* with the trigger type its handler passes to handleEvent
Subscriptions ==
  << <<"app.discovered", "app_discovered">>,
     <<"license.unused", "license_unused">>,
     <<"oauth.risky_permission", "oauth_risky_permission">>,
     <<"user.offboarded", "user_offboarded">>,
     <<"contract.renewal_approaching", "renewal_approaching">>,
     <<"budget.exceeded", "budget_exceeded">> >>

HandlersOf(topic) == {i \in 1..Len(Subscriptions) : Subscriptions[i][1] = topic}

TriggerOf(topic) == Subscriptions[CHOOSE i \in HandlersOf(topic) : TRUE][2]

\* the engine once its handler has run: engine is its trace and executions
Received(engine, trace, at) ==
  [last |-> trace, executions |-> engine.executions \o Started(trace, at, 1)]

\* EventSystem.emit(topic, payload): the handlers registered for the topic
\* are called with the payload
emit(engine, event, at) ==
  IF HandlersOf(event.topic) = {} THEN engine
  ELSE Received(engine,
                handleEvent(findMatchingPolicies(TriggerOf(event.topic),
                                                 Get(event.payload, "tenantId")),
                            TriggerOf(event.topic), event.payload,
                            [i \in 1..MaxActions |-> "ok"], at),
                at)

\* the events a call emitted, in order
RECURSIVE emitAll(_, _, _, _)
emitAll(engine, events, at, i) ==
  IF i > Len(events) THEN engine
  ELSE emitAll(emit(engine, events[i], at), events, at, i + 1)

(***************************************************************************)
(* Access review campaigns (src/unnamed/part_004, class                    *)
(* AccessReviewCampaignEngine, of one tenant).  A campaign's id is its     *)
(* place in campaigns, an item's id its place in reviewItems.  The audit   *)
(* records of createAccessReviewDecision, which the engine only logs, are   *)
(* left out.                                                               *)
(***************************************************************************)
\* this.tenantId
EngineTenant == "t1"

\* storage.getAllUserAppAccess(tenantId): the access grants of the tenant,
\* one per user and app
AccessList ==
  << [userId |-> "u1", appId |-> "a1"],
     [userId |-> "gone", appId |-> "a1"] >>

\* the users storage.getUser finds
KnownUsers == {"u1"}

\* the apps storage.getSaasApp finds for the tenant
KnownApps == {"a1"}

NotFoundMessage == "not found"

StorageError == "storage call rejected"

RevokeError == "access removal rejected"

\* the storage calls of submitDecision that may reject: the audit record
\* (line 290), the progress update (line 303), the access removal (line 342)
\* and the two updates of the execution status (lines 345 and 354)
FailSites == {"createDecision", "progress", "revoke", "markCompleted", "markFailed"}

\* what a call of the engine works on: the stored campaigns and items,
\* the exception in flight, the item ids whose error line 328 logged, the
\* access grants removed and the events emitted
Working(storedCampaigns, storedItems) ==
  [campaigns |-> storedCampaigns, items |-> storedItems, raised |-> NoError,
   logged |-> << >>, revoked |-> {}, events |-> << >>, returned |-> 0]

\* createCampaign (lines 79-101)
createCampaign(st) ==
  [st EXCEPT !.campaigns = Append(@, [status |-> "draft", totalItems |-> 0,
                                      reviewedItems |-> 0, approvedItems |-> 0,
                                      revokedItems |-> 0, deferredItems |-> 0]),
             !.returned = Len(st.campaigns) + 1]

\* createReviewItem (lines 179-223) for each access from i on: no item
\* for an access whose user or app is not found
RECURSIVE createReviewItems(_, _, _)
createReviewItems(campaignId, accessList, i) ==
  IF i > Len(accessList) THEN << >>
  ELSE LET access == accessList[i]
           rest == createReviewItems(campaignId, accessList, i + 1)
       IN  IF access.userId \notin KnownUsers \/ access.appId \notin KnownApps
             THEN rest
             ELSE <<[campaignId |-> campaignId, userId |-> access.userId,
                     appId |-> access.appId, decision |-> "pending",
                     executionStatus |-> "pending", executionError |-> NoError]>> \o rest

\* generateReviewItems (lines 106-141); the scope is 'all'
generateReviewItems(st, campaignId) ==
  IF campaignId \notin 1..Len(st.campaigns) THEN [st EXCEPT !.raised = NotFoundMessage]
  ELSE LET created == createReviewItems(campaignId, AccessList, 1)
       IN  [st EXCEPT !.items = @ \o created,
                      !.campaigns[campaignId].totalItems = Len(created),
                      !.campaigns[campaignId].status = "active",
                      !.returned = Len(created)]

ItemsOf(storedItems, campaignId) ==
  {i \in 1..Len(storedItems) : storedItems[i].campaignId = campaignId}

\* updateCampaignProgress (lines 364-378)
updateCampaignProgress(st, campaignId) ==
  LET held == ItemsOf(st.items, campaignId)
      Deciding(decision) == Cardinality({i \in held : st.items[i].decision = decision})
  IN  [st EXCEPT !.campaigns[campaignId] =
         [@ EXCEPT !.reviewedItems = Cardinality({i \in held : st.items[i].decision # "pending"}),
                   !.approvedItems = Deciding("approved"),
                   !.revokedItems = Deciding("revoked"),
                   !.deferredItems = Deciding("deferred")]]

\* executeRevocation (lines 336-359): the catch block's own update is not
\* guarded
executeRevocation(st, itemId, fails) ==
  LET item == st.items[itemId]
      removed == [st EXCEPT !.revoked = @ \cup {<<item.userId, item.appId>>}]
      message == IF "revoke" \in fails THEN RevokeError ELSE StorageError
      tried == IF "revoke" \in fails THEN st ELSE removed
  IN  IF "revoke" \notin fails /\ "markCompleted" \notin fails
        THEN [removed EXCEPT !.items[itemId].executionStatus = "completed"]
      ELSE IF "markFailed" \in fails
        THEN [tried EXCEPT !.raised = StorageError]
      ELSE [tried EXCEPT !.items[itemId].executionStatus = "failed",
                         !.items[itemId].executionError = message]

\* submitDecision (lines 267-310); fails are the storage calls that reject
submitDecision(st, itemId, decision, fails) ==
  IF itemId \notin 1..Len(st.items) THEN [st EXCEPT !.raised = NotFoundMessage]
  ELSE LET decided == [st EXCEPT !.items[itemId].decision = decision]
           campaignId == st.items[itemId].campaignId
       IN  IF "createDecision" \in fails \/ "progress" \in fails
             THEN [decided EXCEPT !.raised = StorageError]
           ELSE IF decision = "revoked"
             THEN executeRevocation(updateCampaignProgress(decided, campaignId), itemId, fails)
           ELSE updateCampaignProgress(decided, campaignId)

\* BulkItem without the catch block
BulkItemNoCatch(st, itemId, decision, fails) == submitDecision(st, itemId, decision, fails)

\* one turn of the loop of lines 318-330
BulkItem(st, itemId, decision, fails) ==
  LET tried == submitDecision(st, itemId, decision, fails)
  IN  IF tried.raised # NoError
        THEN [tried EXCEPT !.logged = Append(@, itemId), !.raised = NoError]
        ELSE tried

\* submitBulkDecision (lines 315-331) from item i of itemIds on; faults[i]
\* are the storage calls that reject while item i is handled
RECURSIVE submitBulkDecision(_, _, _, _, _)
submitBulkDecision(st, itemIds, decision, faults, i) ==
  IF i > Len(itemIds) \/ st.raised # NoError THEN st
  ELSE submitBulkDecision(BulkItem(st, itemIds[i], decision, faults[i]),
                          itemIds, decision, faults, i + 1)

\* the payload of lines 436-443
CompletedPayload(campaignId, campaign) ==
  Obj(<< <<"tenantId", Str(EngineTenant)>>, <<"campaignId", Num(campaignId)>>,
         <<"totalItems", Num(campaign.totalItems)>>,
         <<"reviewedItems", Num(campaign.reviewedItems)>>,
         <<"revokedItems", Num(campaign.revokedItems)>> >>)

\* completeCampaign (lines 415-445)
completeCampaign(st, campaignId) ==
  IF campaignId \notin 1..Len(st.campaigns) THEN [st EXCEPT !.raised = NotFoundMessage]
  ELSE [st EXCEPT !.campaigns[campaignId].status = "completed",
                  !.events = Append(@, [topic |-> "access_review.completed",
                                       payload |-> CompletedPayload(campaignId,
                                                                    st.campaigns[campaignId])])]

MaxCampaigns == 1

MaxItems == 2

Decisions == {"approved", "revoked", "deferred"}

\* one rejecting call, or a rejecting call and the rejected update of the
\* catch block
FailureCases ==
  {fails \in SUBSET FailSites : Cardinality(fails) <= 1} \cup {{"revoke", "markFailed"}}

\* a call of the engine ends: the store holds what it wrote, the bus has
\* delivered what it emitted
Finish(op, st) ==
  \E engine \in {emitAll([last |-> lastEvent, executions |-> executions], st.events, now, 1)} :
    /\ campaigns' = st.campaigns
    /\ reviewItems' = st.items
    /\ lastReview' = [op |-> op, raised |-> st.raised, events |-> st.events]
    /\ lastEvent' = engine.last
    /\ executions' = engine.executions

CreateCampaign ==
  /\ Len(campaigns) < MaxCampaigns
  /\ \E st \in {createCampaign(Working(campaigns, reviewItems))} :
       Finish("createCampaign", st)
  /\ UNCHANGED <<now, policies, callVars, detectorVars>>

GenerateReviewItems ==
  \E campaignId \in 1..MaxCampaigns :
    \E st \in {generateReviewItems(Working(campaigns, reviewItems), campaignId)} :
      /\ Len(st.items) <= MaxItems
      /\ Finish("generateReviewItems", st)
      /\ UNCHANGED <<now, policies, callVars, detectorVars>>

SubmitDecision ==
  \E itemId \in 1..(MaxItems + 1), decision \in Decisions, fails \in FailureCases :
    /\ \E st \in {submitDecision(Working(campaigns, reviewItems), itemId, decision, fails)} :
         Finish("submitDecision", st)
    /\ UNCHANGED <<now, policies, callVars, detectorVars>>

CompleteCampaign ==
  \E campaignId \in 1..MaxCampaigns :
    /\ \E st \in {completeCampaign(Working(campaigns, reviewItems), campaignId)} :
         Finish("completeCampaign", st)
    /\ UNCHANGED <<now, policies, callVars, detectorVars>>

InitReview ==
  /\ Quiet
  /\ evalCall = NoCall
  /\ gateCall = NoCall
  /\ execCall = NoCall
  /\ unitCall = NoCall

NextReview ==
  \/ CreateCampaign
  \/ GenerateReviewItems
  \/ SubmitDecision
  \/ CompleteCampaign

SpecReview == InitReview /\ [][NextReview]_vars

BulkSize == 3

\* a campaign whose items were generated for BulkSize access grants, none
\* reviewed yet
BulkCampaign ==
  [status |-> "active", totalItems |-> BulkSize, reviewedItems |-> 0,
   approvedItems |-> 0, revokedItems |-> 0, deferredItems |-> 0]

BulkUsers == <<"u1", "u2", "u3", "u4">>

\* the item ids of a bulk decision: every item, or every item but the
\* last and, among them, the id of no item
BulkItemIds ==
  {[i \in 1..BulkSize |-> i],
   [i \in 1..BulkSize |-> IF i = 1 THEN BulkSize + 1 ELSE i - 1]}

InitBulk ==
  /\ EngineQuiet
  /\ DetectorIdle
  /\ campaigns = <<BulkCampaign>>
  /\ reviewItems = [i \in 1..BulkSize |->
                      [campaignId |-> 1, userId |-> BulkUsers[i], appId |-> "a1",
                       decision |-> "pending", executionStatus |-> "pending",
                       executionError |-> NoError]]
  /\ lastReview = [op |-> "none", raised |-> NoError, events |-> << >>]
  /\ evalCall = NoCall
  /\ gateCall = NoCall
  /\ execCall = NoCall
  /\ unitCall \in [itemIds : BulkItemIds, decision : Decisions,
                   faults : [1..BulkSize -> FailureCases],
                   done : {FALSE}, raised : {NoError}, logged : {<< >>}]

SubmitBulkDecision ==
  /\ ~unitCall.done
  /\ \E st \in {submitBulkDecision(Working(campaigns, reviewItems), unitCall.itemIds,
                                   unitCall.decision, unitCall.faults, 1)} :
       /\ Finish("submitBulkDecision", st)
       /\ unitCall' = [unitCall EXCEPT !.done = TRUE, !.raised = st.raised,
                                       !.logged = st.logged]
  /\ UNCHANGED <<now, policies, evalCall, gateCall, execCall, detectorVars>>

NextBulk == SubmitBulkDecision

SpecBulk == InitBulk /\ [][NextBulk]_vars

(***************************************************************************)
(* Shadow IT detector (engine.ts 314-712, class ShadowITDetector, of one   *)
(* tenant).  A name is the sequence of its characters; a missing vendor is  *)
(* the empty name and a missing URL the empty string (both falsy).  A       *)
(* catalog entry's id is its place in catalog, 0 stands for no entry.       *)
(***************************************************************************)
Letters ==
  {"a", "b", "c", "d", "e", "f", "g", "h", "i", "j", "k", "l", "m",
   "n", "o", "p", "q", "r", "s", "t", "u", "v", "w", "x", "y", "z"}

Digits == {"0", "1", "2", "3", "4", "5", "6", "7", "8", "9"}

\* String.prototype.toLowerCase, for the capitals the names are drawn with
ToLowerCase(c) ==
  CASE c = "A" -> "a" [] c = "B" -> "b" [] c = "H" -> "h" [] c = "Q" -> "q"
    [] c = "S" -> "s" [] c = "U" -> "u"
    [] OTHER -> c

IsAlphaNumeric(c) == c \in Letters \cup Digits

\* normalizeAppName (lines 359-365)
normalizeAppName(name) ==
  SelectSeq([i \in 1..Len(name) |-> ToLowerCase(name[i])], IsAlphaNumeric)

\* String.prototype.includes
StringIncludes(text, part) ==
  \E k \in 0..(Len(text) - Len(part)) : SubSeq(text, k + 1, k + Len(part)) = part

FirstOf(places) == CHOOSE i \in places : \A j \in places : i <= j

\* findMatchingApp as one pass over the catalog: the first entry that
\* matches by any tier wins
findMatchingAppInOnePass(apps, discoveredApp) ==
  LET normalizedName == normalizeAppName(discoveredApp.name)
      exact == {i \in 1..Len(apps) : normalizeAppName(apps[i].name) = normalizedName}
      byVendor == {i \in 1..Len(apps) :
                     /\ apps[i].vendor # << >>
                     /\ normalizeAppName(apps[i].vendor) = normalizeAppName(discoveredApp.vendor)}
      bySubstring == {i \in 1..Len(apps) :
                        LET appNormalized == normalizeAppName(apps[i].name)
                        IN  /\ \/ StringIncludes(appNormalized, normalizedName)
                               \/ StringIncludes(normalizedName, appNormalized)
                            /\ Len(appNormalized) >= 4
                            /\ Len(normalizedName) >= 4}
      matching == exact \cup (IF discoveredApp.vendor # << >> THEN byVendor ELSE {}) \cup bySubstring
  IN  IF matching # {} THEN FirstOf(matching) ELSE 0

\* findMatchingApp (lines 370-411): exact name, then vendor, then substring
findMatchingApp(apps, discoveredApp) ==
  LET normalizedName == normalizeAppName(discoveredApp.name)
      exact == {i \in 1..Len(apps) : normalizeAppName(apps[i].name) = normalizedName}
      byVendor == {i \in 1..Len(apps) :
                     /\ apps[i].vendor # << >>
                     /\ normalizeAppName(apps[i].vendor) = normalizeAppName(discoveredApp.vendor)}
      bySubstring == {i \in 1..Len(apps) :
                        LET appNormalized == normalizeAppName(apps[i].name)
                        IN  /\ \/ StringIncludes(appNormalized, normalizedName)
                               \/ StringIncludes(normalizedName, appNormalized)
                            /\ Len(appNormalized) >= 4
                            /\ Len(normalizedName) >= 4}
  IN  IF exact # {} THEN FirstOf(exact)
      ELSE IF discoveredApp.vendor # << >> /\ byVendor # {} THEN FirstOf(byVendor)
      ELSE IF bySubstring # {} THEN FirstOf(bySubstring)
      ELSE 0

UnknownVendor == <<"U", "n", "k", "n", "o", "w", "n">>

Min(a, b) == IF a <= b THEN a ELSE b

\* calculateRiskScore without the cap of line 446
calculateRiskScoreUncapped(app) ==
  LET hasScopes == app.permissions.scopes > 0
      noVendor == app.vendor = << >> \/ app.vendor = UnknownVendor
      noUrl == app.websiteUrl = ""
      excessive == app.permissions.scopes > 10
  IN  [score |-> (IF hasScopes THEN app.permissions.riskScore ELSE 0)
                   + (IF noVendor THEN 10 ELSE 0) + (IF noUrl THEN 5 ELSE 0)
                   + (IF excessive THEN 10 ELSE 0),
       factors |-> (IF hasScopes THEN app.permissions.reasons ELSE << >>)
                     \o (IF noVendor THEN <<"Unknown vendor">> ELSE << >>)
                     \o (IF noUrl THEN <<"No website URL available">> ELSE << >>)
                     \o (IF excessive THEN <<"Excessive permissions">> ELSE << >>)]

\* calculateRiskScore (lines 416-449); app.permissions holds the number of
\* scopes and what OAuthRiskAnalyzer.assessPermissions returns for them
calculateRiskScore(app) ==
  LET hasScopes == app.permissions.scopes > 0
      noVendor == app.vendor = << >> \/ app.vendor = UnknownVendor
      noUrl == app.websiteUrl = ""
      excessive == app.permissions.scopes > 10
  IN  [score |-> Min((IF hasScopes THEN app.permissions.riskScore ELSE 0)
                       + (IF noVendor THEN 10 ELSE 0) + (IF noUrl THEN 5 ELSE 0)
                       + (IF excessive THEN 10 ELSE 0), 100),
       factors |-> (IF hasScopes THEN app.permissions.reasons ELSE << >>)
                     \o (IF noVendor THEN <<"Unknown vendor">> ELSE << >>)
                     \o (IF noUrl THEN <<"No website URL available">> ELSE << >>)
                     \o (IF excessive THEN <<"Excessive permissions">> ELSE << >>)]

\* analyzeApp with the thresholds of lines 463 and 465 exclusive
analyzeAppAboveThresholds(apps, discoveredApp) ==
  LET matchedApp == findMatchingApp(apps, discoveredApp)
      risk == calculateRiskScore(discoveredApp)
  IN  IF matchedApp = 0
        THEN [isUnapproved |-> TRUE, isNewDiscovery |-> TRUE, riskScore |-> risk.score,
              riskFactors |-> <<"App not in approved catalog">> \o risk.factors,
              matchedAppId |-> 0,
              recommendedAction |-> IF risk.score > 75 THEN "investigate"
                                    ELSE IF risk.score > 50 THEN "review"
                                    ELSE "approve"]
      ELSE IF apps[matchedApp].approvalStatus = "denied"
        THEN [isUnapproved |-> TRUE, isNewDiscovery |-> FALSE,
              riskScore |-> Min(risk.score + 30, 100),
              riskFactors |-> <<"App explicitly denied">> \o risk.factors,
              matchedAppId |-> matchedApp, recommendedAction |-> "deny"]
      ELSE IF apps[matchedApp].approvalStatus = "pending"
        THEN [isUnapproved |-> TRUE, isNewDiscovery |-> FALSE, riskScore |-> risk.score,
              riskFactors |-> <<"App approval pending">> \o risk.factors,
              matchedAppId |-> matchedApp, recommendedAction |-> "review"]
      ELSE [isUnapproved |-> FALSE, isNewDiscovery |-> FALSE, riskScore |-> risk.score,
            riskFactors |-> risk.factors,
            matchedAppId |-> matchedApp, recommendedAction |-> "approve"]

\* analyzeApp (lines 454-512)
analyzeApp(apps, discoveredApp) ==
  LET matchedApp == findMatchingApp(apps, discoveredApp)
      risk == calculateRiskScore(discoveredApp)
  IN  IF matchedApp = 0
        THEN [isUnapproved |-> TRUE, isNewDiscovery |-> TRUE, riskScore |-> risk.score,
              riskFactors |-> <<"App not in approved catalog">> \o risk.factors,
              matchedAppId |-> 0,
              recommendedAction |-> IF risk.score >= 75 THEN "investigate"
                                    ELSE IF risk.score >= 50 THEN "review"
                                    ELSE "approve"]
      ELSE IF apps[matchedApp].approvalStatus = "denied"
        THEN [isUnapproved |-> TRUE, isNewDiscovery |-> FALSE,
              riskScore |-> Min(risk.score + 30, 100),
              riskFactors |-> <<"App explicitly denied">> \o risk.factors,
              matchedAppId |-> matchedApp, recommendedAction |-> "deny"]
      ELSE IF apps[matchedApp].approvalStatus = "pending"
        THEN [isUnapproved |-> TRUE, isNewDiscovery |-> FALSE, riskScore |-> risk.score,
              riskFactors |-> <<"App approval pending">> \o risk.factors,
              matchedAppId |-> matchedApp, recommendedAction |-> "review"]
      ELSE [isUnapproved |-> FALSE, isNewDiscovery |-> FALSE, riskScore |-> risk.score,
            riskFactors |-> risk.factors,
            matchedAppId |-> matchedApp, recommendedAction |-> "approve"]

\* the catalog entry of lines 540-557, with the approval status taken from
\* the recommended action
newAppAsRecommended(discoveredApp, analysis, idpId, at) ==
  [name |-> discoveredApp.name, vendor |-> discoveredApp.vendor,
   websiteUrl |-> discoveredApp.websiteUrl,
   approvalStatus |-> IF analysis.recommendedAction = "approve" THEN "approved" ELSE "pending",
   riskScore |-> analysis.riskScore, riskFactors |-> analysis.riskFactors,
   discoveryMethod |-> "idp", discoveryDate |-> at, lastUsedAt |-> NoDate,
   metadata |-> [discoveredFrom |-> idpId, lastSyncedFrom |-> "none"]]

\* the catalog entry of lines 540-557
newApp(discoveredApp, analysis, idpId, at) ==
  [name |-> discoveredApp.name, vendor |-> discoveredApp.vendor,
   websiteUrl |-> discoveredApp.websiteUrl,
   approvalStatus |-> "pending",
   riskScore |-> analysis.riskScore, riskFactors |-> analysis.riskFactors,
   discoveryMethod |-> "idp", discoveryDate |-> at, lastUsedAt |-> NoDate,
   metadata |-> [discoveredFrom |-> idpId, lastSyncedFrom |-> "none"]]

\* the events of lines 564-589 for the entry created at appId
DiscoveryEvents(discoveredApp, analysis, appId, created) ==
  LET riskLevel == IF analysis.riskScore >= 75 THEN "critical"
                   ELSE IF analysis.riskScore >= 50 THEN "high"
                   ELSE IF analysis.riskScore >= 25 THEN "medium"
                   ELSE "low"
      discovered == [topic |-> "app.discovered",
                     payload |-> Obj(<< <<"tenantId", Str(EngineTenant)>>,
                                        <<"appId", Num(appId)>>,
                                        <<"approvalStatus", Str(created.approvalStatus)>>,
                                        <<"riskLevel", Str(riskLevel)>>,
                                        <<"riskScore", Num(analysis.riskScore)>> >>)]
      risky == [topic |-> "oauth.risky_permission",
                payload |-> Obj(<< <<"tenantId", Str(EngineTenant)>>,
                                   <<"appId", Num(appId)>>,
                                   <<"riskLevel", Str(riskLevel)>>,
                                   <<"riskScore", Num(analysis.riskScore)>> >>)]
  IN  IF ~analysis.isUnapproved THEN << >>
      ELSE IF discoveredApp.permissions.scopes > 0 /\ analysis.riskScore >= 50
        THEN <<discovered, risky>>
      ELSE <<discovered>>

\* processApp whose update branch puts the entry back to pending
processAppResettingStatus(apps, discoveredApp, idpId, at) ==
  LET analysis == analyzeApp(apps, discoveredApp)
      created == newApp(discoveredApp, analysis, idpId, at)
  IN  IF analysis.matchedAppId # 0
        THEN [catalog |-> [apps EXCEPT ![analysis.matchedAppId] =
                             [@ EXCEPT !.lastUsedAt = at, !.discoveryDate = at,
                                       !.discoveryMethod = "idp",
                                       !.approvalStatus = "pending",
                                       !.riskScore = analysis.riskScore,
                                       !.riskFactors = analysis.riskFactors,
                                       !.metadata = [discoveredFrom |-> "none",
                                                     lastSyncedFrom |-> idpId]]],
              created |-> FALSE, appId |-> analysis.matchedAppId, events |-> << >>]
        ELSE [catalog |-> Append(apps, created),
              created |-> TRUE, appId |-> Len(apps) + 1,
              events |-> DiscoveryEvents(discoveredApp, analysis, Len(apps) + 1, created)]

\* processApp taking the create branch whatever the analysis found
processAppInsertOnly(apps, discoveredApp, idpId, at) ==
  [catalog |-> Append(apps, newApp(discoveredApp, analyzeApp(apps, discoveredApp), idpId, at)),
   created |-> TRUE, appId |-> Len(apps) + 1, events |-> << >>]

\* processApp (lines 517-594) on the catalog apps: the catalog it leaves,
\* its return value and the events it emits
processApp(apps, discoveredApp, idpId, at) ==
  LET analysis == analyzeApp(apps, discoveredApp)
      created == newApp(discoveredApp, analysis, idpId, at)
  IN  IF analysis.matchedAppId # 0
        THEN [catalog |-> [apps EXCEPT ![analysis.matchedAppId] =
                             [@ EXCEPT !.lastUsedAt = at, !.discoveryDate = at,
                                       !.discoveryMethod = "idp",
                                       !.riskScore = analysis.riskScore,
                                       !.riskFactors = analysis.riskFactors,
                                       !.metadata = [discoveredFrom |-> "none",
                                                     lastSyncedFrom |-> idpId]]],
              created |-> FALSE, appId |-> analysis.matchedAppId, events |-> << >>]
        ELSE [catalog |-> Append(apps, created),
              created |-> TRUE, appId |-> Len(apps) + 1,
              events |-> DiscoveryEvents(discoveredApp, analysis, Len(apps) + 1, created)]

Slack == <<"S", "l", "a", "c", "k">>

SlackBang == <<"s", "l", "a", "c", "k", "!">>

SlackHQ == <<"S", "l", "a", "c", "k", " ", "H", "Q">>

Box == <<"B", "o", "x">>

AppNames == {Slack, SlackBang, SlackHQ, Box}

Acme == <<"A", "c", "m", "e">>

Vendors == {<< >>, UnknownVendor, Acme}

\* the scopes of a discovered app with their assessment: none, a few of
\* middle risk, a few of high risk, more than ten of high risk
PermissionInputs ==
  {[scopes |-> 0, riskScore |-> 0, reasons |-> << >>],
   [scopes |-> 2, riskScore |-> 45, reasons |-> <<"High-risk permission: Mail.Read">>],
   [scopes |-> 3, riskScore |-> 70, reasons |-> <<"High-risk permission: Files.ReadWrite.All">>],
   [scopes |-> 11, riskScore |-> 90, reasons |-> <<"High-risk permission: Directory.ReadWrite.All">>]}

DiscoveredApps ==
  [name : AppNames, vendor : Vendors, websiteUrl : {"", "https://app.example"},
   permissions : PermissionInputs]

\* a catalog entry an administrator entered
AdminEntry(name, vendor, approvalStatus) ==
  [name |-> name, vendor |-> vendor, websiteUrl |-> "https://app.example",
   approvalStatus |-> approvalStatus, riskScore |-> 0, riskFactors |-> << >>,
   discoveryMethod |-> "manual", discoveryDate |-> NoDate, lastUsedAt |-> NoDate,
   metadata |-> [discoveredFrom |-> "none", lastSyncedFrom |-> "none"]]

ApprovalStatuses == {"approved", "pending", "denied"}

\* the catalogs the detector starts from
CatalogInputs ==
  {<< >>} \cup {<<AdminEntry(Slack, vendor, approvalStatus)>> :
                  vendor \in {<< >>, Acme}, approvalStatus \in ApprovalStatuses}

MaxCatalog == 2

\* the apps a sync discovers
SyncedApps ==
  {app \in DiscoveredApps : /\ app.websiteUrl # ""
                            /\ app.vendor # UnknownVendor
                            /\ app.name # SlackBang
                            /\ app.permissions.riskScore # 70}

InitShadow ==
  /\ EngineQuiet
  /\ ReviewIdle
  /\ evalCall = NoCall
  /\ gateCall = NoCall
  /\ execCall = NoCall
  /\ unitCall = NoCall
  /\ catalog \in CatalogInputs
  /\ lastProcess = NoProcess

ProcessApp ==
  \E discoveredApp \in SyncedApps :
    \E result \in {processApp(catalog, discoveredApp, "idp1", now)} :
      \E engine \in {emitAll([last |-> lastEvent, executions |-> executions],
                             result.events, now, 1)} :
        /\ Len(result.catalog) <= MaxCatalog
        /\ catalog' = result.catalog
        /\ lastProcess' = [app |-> discoveredApp, created |-> result.created,
                           appId |-> result.appId, events |-> result.events]
        /\ lastEvent' = engine.last
        /\ executions' = engine.executions
        /\ UNCHANGED <<now, policies, callVars, reviewVars>>

NextShadow == ProcessApp

SpecShadow == InitShadow /\ [][NextShadow]_vars

\* processApp applied to a drawn catalog and a drawn app; analysis is what
\* its call of analyzeApp (line 518) returns
InitProcess ==
  /\ Quiet
  /\ evalCall = NoCall
  /\ gateCall = NoCall
  /\ execCall = NoCall
  /\ unitCall \in [apps : CatalogInputs, discoveredApp : DiscoveredApps,
                   done : {FALSE}, analysis : {NoCall}, result : {NoCall},
                   again : {NoCall}]

ProcessDrawnApp ==
  /\ ~unitCall.done
  /\ unitCall' = [unitCall EXCEPT
       !.done = TRUE,
       !.analysis = analyzeApp(unitCall.apps, unitCall.discoveredApp),
       !.result = processApp(unitCall.apps, unitCall.discoveredApp, "idp1", now)]
  /\ UNCHANGED <<engineVars, evalCall, gateCall, execCall, detectorVars, reviewVars>>

\* the same app processed a second time on the catalog the first call left
ProcessDrawnAppAgain ==
  /\ unitCall.done
  /\ unitCall.again = NoCall
  /\ unitCall' = [unitCall EXCEPT
       !.again = processApp(unitCall.result.catalog, unitCall.discoveredApp, "idp1", now)]
  /\ UNCHANGED <<engineVars, evalCall, gateCall, execCall, detectorVars, reviewVars>>

NextProcess == ProcessDrawnApp \/ ProcessDrawnAppAgain

SpecProcess == InitProcess /\ [][NextProcess]_vars

\* the batch as processApps sees it: the catalog, the counters of lines
\* 603-605, the events emitted, what the console shows per app, and the
\* exception under way, if any
StartBatch(apps) ==
  [catalog |-> apps, appsCreated |-> 0, appsUpdated |-> 0, shadowITDetected |-> 0,
   events |-> << >>, analysed |-> << >>, logged |-> << >>, raised |-> NoError]

\* lines 609-613: the analysis is counted before the app is persisted
Detected(run, analysis) ==
  [run EXCEPT !.analysed = Append(@, analysis.isUnapproved),
              !.shadowITDetected = IF analysis.isUnapproved THEN @ + 1 ELSE @]

\* lines 615-621 once processApp has returned
Processed(run, result) ==
  [run EXCEPT !.catalog = result.catalog,
              !.events = @ \o result.events,
              !.appsCreated = IF result.created THEN @ + 1 ELSE @,
              !.appsUpdated = IF result.created THEN @ ELSE @ + 1]

\* the try block of lines 608-621 for one app; persists is whether the
\* storage call of processApp (line 522 or 559) resolves
TryApp(run, discoveredApp, idpId, persists, at) ==
  IF persists
    THEN Processed(Detected(run, analyzeApp(run.catalog, discoveredApp)),
                   processApp(run.catalog, discoveredApp, idpId, at))
    ELSE [Detected(run, analyzeApp(run.catalog, discoveredApp)) EXCEPT !.raised = StorageError]

\* the catch block of lines 622-624
CatchApp(tried, discoveredApp) ==
  IF tried.raised = NoError THEN tried
  ELSE [tried EXCEPT !.logged = Append(@, discoveredApp.name), !.raised = NoError]

\* one turn of the loop of lines 607-625
BatchApp(run, discoveredApp, idpId, persists, at) ==
  CatchApp(TryApp(run, discoveredApp, idpId, persists, at), discoveredApp)

RECURSIVE BatchLoop(_, _, _, _, _, _)
\* the loop of lines 607-625 from app i on
BatchLoop(run, discoveredApps, idpId, persisting, at, i) ==
  IF i > Len(discoveredApps) \/ run.raised # NoError THEN run
  ELSE BatchLoop(BatchApp(run, discoveredApps[i], idpId, persisting[i], at),
                 discoveredApps, idpId, persisting, at, i + 1)

\* the value of lines 627-632
BatchResult(run, discoveredApps) ==
  [appsProcessed |-> Len(discoveredApps), appsCreated |-> run.appsCreated,
   appsUpdated |-> run.appsUpdated, shadowITDetected |-> run.shadowITDetected,
   catalog |-> run.catalog, events |-> run.events, analysed |-> run.analysed,
   logged |-> run.logged, raised |-> run.raised]

\* processApps (lines 599-633) on the catalog apps
processApps(apps, discoveredApps, idpId, persisting, at) ==
  BatchResult(BatchLoop(StartBatch(apps), discoveredApps, idpId, persisting, at, 1),
              discoveredApps)

BatchSize == 2

\* the apps of a batch: of no risk and of high risk
BatchApps ==
  {app \in SyncedApps : app.vendor = Acme /\ app.permissions.scopes \in {0, 11}}

InitBatch ==
  /\ Quiet
  /\ evalCall = NoCall
  /\ gateCall = NoCall
  /\ execCall = NoCall
  /\ unitCall \in [apps : CatalogInputs, discoveredApps : [1..BatchSize -> BatchApps],
                   persisting : [1..BatchSize -> BOOLEAN],
                   done : {FALSE}, result : {NoCall}]

ProcessApps ==
  /\ ~unitCall.done
  /\ unitCall' = [unitCall EXCEPT
       !.done = TRUE,
       !.result = processApps(unitCall.apps, unitCall.discoveredApps, "idp1",
                              unitCall.persisting, now)]
  /\ UNCHANGED <<engineVars, evalCall, gateCall, execCall, detectorVars, reviewVars>>

NextBatch == ProcessApps

SpecBatch == InitBatch /\ [][NextBatch]_vars

BoxHQ == <<"B", "o", "x", " ", "H", "Q">>

MatchCatalog == 2

\* the catalogs findMatchingApp is applied to: up to MatchCatalog approved
\* entries, with and without a vendor
MatchCatalogs ==
  UNION {[1..n -> {AdminEntry(name, vendor, "approved") :
                     name \in {Slack, SlackHQ, Box, BoxHQ}, vendor \in {<< >>, Acme}}] :
           n \in 0..MatchCatalog}

InitMatch ==
  /\ Quiet
  /\ evalCall = NoCall
  /\ gateCall = NoCall
  /\ execCall = NoCall
  /\ unitCall \in [apps : MatchCatalogs,
                   discoveredApp : [name : AppNames \cup {BoxHQ}, vendor : Vendors,
                                    websiteUrl : {""},
                                    permissions : {[scopes |-> 0, riskScore |-> 0,
                                                    reasons |-> << >>]}],
                   done : {FALSE}, result : {0}]

FindMatchingApp ==
  /\ ~unitCall.done
  /\ unitCall' = [unitCall EXCEPT
       !.done = TRUE,
       !.result = findMatchingApp(unitCall.apps, unitCall.discoveredApp)]
  /\ UNCHANGED <<engineVars, evalCall, gateCall, execCall, detectorVars, reviewVars>>

NextMatch == FindMatchingApp

SpecMatch == InitMatch /\ [][NextMatch]_vars

(***************************************************************************)
(* executePolicy step by step: the loop of lines 219-261 and the handler   *)
(* calls it waits for                                                      *)
(***************************************************************************)
\* the call is not awaited: the loop goes on to the next action
CallWithoutAwait(call, k) == [call EXCEPT !.index = @ + 1]

\* `await handler.execute(...)` (line 236): the loop is suspended until
\* the call of action k settles
Await(call, k) == [call EXCEPT !.awaiting = k]

\* the loop resumes after the call of action k has settled
Resume(call, k) ==
  IF call.awaiting = k THEN [call EXCEPT !.awaiting = 0, !.index = @ + 1] ELSE call

InitSteps ==
  /\ Quiet
  /\ evalCall = NoCall
  /\ gateCall = NoCall
  /\ execCall = NoCall
  /\ unitCall \in [actions : ActionLists, ex : {NewExecution}, index : {1}, awaiting : {0},
                   inFlight : {{}}, started : {<< >>}, settled : {<< >>}]

\* one turn of the loop up to its await: an action without a handler is
\* recorded as failed (lines 224-233), the handler of another is called
StartAction ==
  /\ unitCall.awaiting = 0
  /\ unitCall.index <= Len(unitCall.actions)
  /\ unitCall' =
       IF HasHandler(unitCall.actions[unitCall.index].type)
         THEN Await([unitCall EXCEPT !.inFlight = @ \cup {unitCall.index},
                                     !.started = Append(@, unitCall.index)],
                    unitCall.index)
         ELSE [unitCall EXCEPT !.ex = RunAction(@, unitCall.actions[unitCall.index], "ok"),
                               !.index = @ + 1]
  /\ UNCHANGED <<engineVars, evalCall, gateCall, execCall, detectorVars, reviewVars>>

\* a handler call settles: it returns or throws, and the rest of the turn
\* (lines 238-259) records its result
HandlerSettles ==
  \E k \in unitCall.inFlight, outcome \in Outcomes :
    /\ unitCall' = Resume([unitCall EXCEPT !.ex = RunAction(@, unitCall.actions[k], outcome),
                                           !.inFlight = @ \ {k},
                                           !.settled = Append(@, k)],
                          k)
    /\ UNCHANGED <<engineVars, evalCall, gateCall, execCall, detectorVars, reviewVars>>

NextSteps == StartAction \/ HandlerSettles

SpecSteps == InitSteps /\ [][NextSteps]_vars

(***************************************************************************)
(* calculateRiskLevel (part_004 228-262)                                   *)
(***************************************************************************)
\* the score of lines 233-254; daysSinceLastUse is a number or null
AccessRiskScore(app, access, daysSinceLastUse) ==
  (IF app.riskScore >= 75 THEN 30
   ELSE IF app.riskScore >= 50 THEN 20
   ELSE IF app.riskScore >= 25 THEN 10
   ELSE 0)
  + (IF access.accessType = "admin" \/ access.accessType = "owner" THEN 25 ELSE 0)
  + (IF daysSinceLastUse = Null THEN 0
     ELSE IF daysSinceLastUse.v > 180 THEN 30
     ELSE IF daysSinceLastUse.v > 90 THEN 20
     ELSE IF daysSinceLastUse.v > 30 THEN 10
     ELSE 0)
  + (IF access.businessJustification = "" THEN 10 ELSE 0)

\* calculateRiskLevel with the thresholds of lines 257-259 exclusive
calculateRiskLevelAboveThresholds(app, access, daysSinceLastUse) ==
  IF AccessRiskScore(app, access, daysSinceLastUse) > 60 THEN "critical"
  ELSE IF AccessRiskScore(app, access, daysSinceLastUse) > 40 THEN "high"
  ELSE IF AccessRiskScore(app, access, daysSinceLastUse) > 20 THEN "medium"
  ELSE "low"

\* calculateRiskLevel: the score mapped by the thresholds of lines 257-260
calculateRiskLevel(app, access, daysSinceLastUse) ==
  IF AccessRiskScore(app, access, daysSinceLastUse) >= 60 THEN "critical"
  ELSE IF AccessRiskScore(app, access, daysSinceLastUse) >= 40 THEN "high"
  ELSE IF AccessRiskScore(app, access, daysSinceLastUse) >= 20 THEN "medium"
  ELSE "low"

\* the access grants and apps calculateRiskLevel is applied to: scores and
\* days on both sides of every threshold
InitRisk ==
  /\ Quiet
  /\ evalCall = NoCall
  /\ gateCall = NoCall
  /\ execCall = NoCall
  /\ unitCall \in [app : [riskScore : {0, 24, 25, 49, 50, 74, 75, 80, 100}],
                   access : [accessType : {"user", "admin", "owner"},
                             businessJustification : {"", "quarterly audit"}],
                   daysSinceLastUse : {Null} \cup {Num(d) : d \in {0, 30, 31, 90, 91, 180, 181, 200}},
                   done : {FALSE}, result : {"none"}]

CalculateRiskLevel ==
  /\ ~unitCall.done
  /\ unitCall' = [unitCall EXCEPT
       !.done = TRUE,
       !.result = calculateRiskLevel(unitCall.app, unitCall.access, unitCall.daysSinceLastUse)]
  /\ UNCHANGED <<engineVars, evalCall, gateCall, execCall, detectorVars, reviewVars>>

NextRisk == CalculateRiskLevel

SpecRisk == InitRisk /\ [][NextRisk]_vars

(***************************************************************************)
(* submitDecision call by call: the storage calls of concurrent calls on   *)
(* items of one campaign interleave at every await                         *)
(***************************************************************************)
MaxCallers == 2

Callers == 1..MaxCallers

\* a call is in flight from its first storage call to its return
InFlight(call) == call.pc \notin {"idle", "done"}

InitConcurrent ==
  /\ EngineQuiet
  /\ DetectorIdle
  /\ campaigns = <<BulkCampaign>>
  /\ reviewItems = [i \in 1..BulkSize |->
                      [campaignId |-> 1, userId |-> BulkUsers[i], appId |-> "a1",
                       decision |-> "pending", executionStatus |-> "pending",
                       executionError |-> NoError]]
  /\ lastReview = [op |-> "none", raised |-> NoError, events |-> << >>]
  /\ evalCall = NoCall
  /\ gateCall = NoCall
  /\ execCall = NoCall
  /\ unitCall \in [Callers -> [itemId : 1..BulkSize, decision : Decisions,
                               pc : {"idle"}, read : {<< >>}]]
  /\ \A c, d \in Callers : unitCall[c].itemId = unitCall[d].itemId => c = d

\* line 277: the call reads its item
CallGetsItem ==
  \E c \in Callers :
    /\ unitCall[c].pc = "idle"
    /\ unitCall' = [unitCall EXCEPT ![c].pc = "updateItem"]
    /\ UNCHANGED <<engineVars, evalCall, gateCall, execCall, detectorVars, reviewVars>>

\* lines 283-289: the decision is written on the item
CallUpdatesItem ==
  \E c \in Callers :
    /\ unitCall[c].pc = "updateItem"
    /\ reviewItems' = [reviewItems EXCEPT ![unitCall[c].itemId].decision = unitCall[c].decision]
    /\ unitCall' = [unitCall EXCEPT ![c].pc = "createDecision"]
    /\ UNCHANGED <<engineVars, evalCall, gateCall, execCall, detectorVars, campaigns, lastReview>>

\* lines 292-302: the audit record
CallCreatesDecision ==
  \E c \in Callers :
    /\ unitCall[c].pc = "createDecision"
    /\ unitCall' = [unitCall EXCEPT ![c].pc = "readItems"]
    /\ UNCHANGED <<engineVars, evalCall, gateCall, execCall, detectorVars, reviewVars>>

\* updateCampaignProgress, line 365: the call reads the items of the campaign
CallReadsItems ==
  \E c \in Callers :
    /\ unitCall[c].pc = "readItems"
    /\ unitCall' = [unitCall EXCEPT ![c].pc = "writeCounters", ![c].read = reviewItems]
    /\ UNCHANGED <<engineVars, evalCall, gateCall, execCall, detectorVars, reviewVars>>

\* updateCampaignProgress, lines 367-377: the counters of the items read
\* are written on the campaign
CallWritesCounters ==
  \E c \in Callers :
    /\ unitCall[c].pc = "writeCounters"
    /\ campaigns' = updateCampaignProgress(Working(campaigns, unitCall[c].read),
                                           reviewItems[unitCall[c].itemId].campaignId).campaigns
    /\ unitCall' = [unitCall EXCEPT
         ![c].pc = IF unitCall[c].decision = "revoked" THEN "revoke" ELSE "done"]
    /\ UNCHANGED <<engineVars, evalCall, gateCall, execCall, detectorVars, reviewItems, lastReview>>

\* lines 307-309: executeRevocation, its storage calls resolving
CallExecutesRevocation ==
  \E c \in Callers :
    /\ unitCall[c].pc = "revoke"
    /\ reviewItems' = executeRevocation(Working(campaigns, reviewItems),
                                        unitCall[c].itemId, {}).items
    /\ unitCall' = [unitCall EXCEPT ![c].pc = "done"]
    /\ UNCHANGED <<engineVars, evalCall, gateCall, execCall, detectorVars, campaigns, lastReview>>

NextConcurrent ==
  \/ CallGetsItem
  \/ CallUpdatesItem
  \/ CallCreatesDecision
  \/ CallReadsItems
  \/ CallWritesCounters
  \/ CallExecutesRevocation

SpecConcurrent == InitConcurrent /\ [][NextConcurrent]_vars

(***************************************************************************)
(* Properties                                                              *)
(***************************************************************************)
MsOfMinutes(n) == n * SecondsPerMinute * MsPerSecond

MsPerDay == 86400000

\* the calendar day of a clock value (the tenant's zone taken as UTC)
DayOf(t) == t \div MsPerDay

C3_ActionCountsSum ==
  execCall.done =>
    execCall.result.actionsExecuted
      = execCall.result.actionsSucceeded + execCall.result.actionsFailed

\* C4: the final status of an execution is 'failed' if and only if
\* actionsSucceeded = 0 and actionsExecuted > 0.
C4_FailedIffNoneSucceeded ==
  execCall.done =>
    (execCall.result.status = "failed"
       <=> (execCall.result.actionsSucceeded = 0 /\ execCall.result.actionsExecuted > 0))

\* action i of a run fails: it has no handler, or its handler throws or
\* reports failure
ActionFails(call, i) ==
  ~HasHandler(call.actions[i].type) \/ call.outcomes[i] # "ok"

FailedActions(call) == {i \in 1..Len(call.actions) : ActionFails(call, i)}

SucceededActions(call) == {i \in 1..Len(call.actions) : ~ActionFails(call, i)}

\* C5: after all actions have run the status is 'success' exactly when no
\* action failed (so also with no actions), 'partial' exactly when at least
\* one succeeded and at least one failed, 'failed' exactly when there was at
\* least one action and all failed; the success flag is true only for
\* status 'success'.
C5_StatusFromOutcomes ==
  execCall.done =>
    /\ execCall.result.status = "success" <=> FailedActions(execCall) = {}
    /\ execCall.result.status = "partial"
         <=> (SucceededActions(execCall) # {} /\ FailedActions(execCall) # {})
    /\ execCall.result.status = "failed"
         <=> (Len(execCall.actions) > 0 /\ SucceededActions(execCall) = {})
    /\ execCall.result.success => execCall.result.status = "success"

C5_Witness ==
  /\ execCall.done
  /\ execCall.result.status = "partial"
  /\ ~execCall.result.success
  /\ Len(execCall.actions) = 2

\* C6: a failing action (no handler: 'No handler found'; handler throws: the
\* thrown message; handler reports failure) never keeps the later actions
\* from running: the results hold one entry per action, in the order of the
\* actions, and executePolicy does not throw.
C6_EveryActionHasItsResult ==
  execCall.done =>
    /\ ~execCall.result.threw
    /\ Len(execCall.result.results) = Len(execCall.actions)
    /\ \A i \in 1..Len(execCall.actions) :
         LET entry == execCall.result.results[i]
         IN  /\ entry.actionType = execCall.actions[i].type
             /\ entry.success <=> ~ActionFails(execCall, i)
             /\ ~HasHandler(execCall.actions[i].type) => entry.error = "No handler found"
             /\ (HasHandler(execCall.actions[i].type) /\ execCall.outcomes[i] = "throw")
                  => entry.error = ThrownMessage

C6_Witness ==
  /\ execCall.done
  /\ Len(execCall.actions) = 3
  /\ ~HasHandler(execCall.actions[1].type)
  /\ HasHandler(execCall.actions[2].type) /\ execCall.outcomes[2] = "throw"
  /\ HasHandler(execCall.actions[3].type) /\ execCall.outcomes[3] = "ok"
  /\ Len(execCall.result.results) = 3
  /\ execCall.result.results[3].success

HasUnknownOperator(conditions) ==
  /\ conditions.t = "object"
  /\ \E i \in 1..Len(conditions.v) :
       /\ conditions.v[i][2].t = "object"
       /\ \E k \in 1..Len(conditions.v[i][2].v) :
            conditions.v[i][2].v[k][1] \notin KnownOperators

\* C8: a condition with an unknown operator in an object predicate is a
\* non-match for every payload.
C8_UnknownOperatorNeverMatches ==
  (evalCall.done /\ HasUnknownOperator(evalCall.conditions)) => ~evalCall.result

\* one known operator holds between the payload value and its operand
Holds(op, dataValue, operand) ==
  CASE op = "$gt" -> JsLess(operand, dataValue)
    [] op = "$gte" -> JsLess(operand, dataValue) \/ (dataValue = operand /\ dataValue.t # "undefined")
    [] op = "$lt" -> JsLess(dataValue, operand)
    [] op = "$lte" -> JsLess(dataValue, operand) \/ (dataValue = operand /\ dataValue.t # "undefined")
    [] op = "$eq" -> dataValue = operand
    [] op = "$ne" -> dataValue # operand

\* one top-level field of a condition matches the payload
FieldMatches(value, dataValue) ==
  CASE value.t = "array" -> dataValue \in {value.v[i] : i \in 1..Len(value.v)}
    [] value.t = "object" ->
         \A k \in 1..Len(value.v) :
           value.v[k][1] \in KnownOperators => Holds(value.v[k][1], dataValue, value.v[k][2])
    [] OTHER -> dataValue = value

Matches(conditions, triggerData) ==
  conditions.t = "object" =>
    \A i \in 1..Len(conditions.v) :
      FieldMatches(conditions.v[i][2], Get(triggerData, conditions.v[i][1]))

\* C9: evaluateConditions is true iff every top-level field of the condition
\* matches the payload: an array by membership, an object when each of its
\* operators among $gt, $gte, $lt, $lte, $eq, $ne holds, a scalar by strict
\* equality; a policy without conditions matches every payload; and
\* {riskScore: {$gte: 70}} matches riskScore 70 and not 69.
C9_MatchesIffEveryFieldMatches ==
  evalCall.done =>
    /\ evalCall.result <=> Matches(evalCall.conditions, evalCall.triggerData)
    /\ evalCall.conditions = ScoreAtLeast70 =>
         /\ Get(evalCall.triggerData, "riskScore") = Num(70) => evalCall.result
         /\ Get(evalCall.triggerData, "riskScore") = Num(69) => ~evalCall.result

C9_Witness ==
  /\ evalCall.done
  /\ evalCall.conditions = ScoreAtLeast70
  /\ Get(evalCall.triggerData, "riskScore") = Num(70)
  /\ evalCall.result

\* C10: a policy with cooldownMinutes = N that last ran at T may not run at
\* T + M minutes for M < N and may run for every M >= N, M = N included.
C10_CooldownBoundary ==
  (gateCall.done /\ gateCall.policy.lastExecutedAt # NoDate) =>
    LET elapsed == gateCall.at - gateCall.policy.lastExecutedAt
        N == gateCall.policy.cooldownMinutes
    IN  /\ \A M \in 0..(MaxCooldown + 2) :
             elapsed = MsOfMinutes(M) => (gateCall.result <=> M >= N)
        /\ gateCall.result <=> elapsed >= MsOfMinutes(N)

C10_Witness ==
  /\ gateCall.done
  /\ gateCall.policy.lastExecutedAt = TickMs
  /\ gateCall.policy.cooldownMinutes = 1
  /\ gateCall.at = TickMs + MsOfMinutes(1)
  /\ gateCall.result

\* the stored policies an event of the trigger type of the tenant concerns
ListeningPolicies(triggerType, tenantId) ==
  {id \in PolicyIds : /\ policies[id].enabled
                      /\ policies[id].triggerType = triggerType
                      /\ tenantId.t = "string"
                      /\ policies[id].tenantId = tenantId.v}

\* C11: for an event of type X of tenant t that is not dropped, the lookup
\* returns exactly the stored policies that are enabled, belong to t and
\* listen to X: every such policy is considered, no other one is.
C11_LookupReturnsListeningPolicies ==
  (lastEvent.triggerType # "none" /\ ~lastEvent.dropped) =>
    {lastEvent.found[i] : i \in 1..Len(lastEvent.found)}
      = ListeningPolicies(lastEvent.triggerType, Get(lastEvent.triggerData, "tenantId"))

\* whether the gate lets the stored policy run at the time of the last event
Permitted(id) == canExecutePolicy(policies[id], lastEvent.at)

Refused(id) == ~Permitted(id)

\* C12: when several policies match one event, an error raised while one
\* of them is gated or executed does not stop the others: every matching
\* policy is gated and, when the gate permits it, executed, in list order.
C12_ErrorDoesNotStopLaterPolicies ==
  (lastEvent.triggerType # "none" /\ ~lastEvent.dropped) =>
    /\ lastEvent.executed = SelectSeq(lastEvent.found, Permitted)
    /\ lastEvent.skipped = SelectSeq(lastEvent.found, Refused)
    /\ \A i \in 1..Len(lastEvent.errors) :
         \E j \in 1..Len(lastEvent.executed) : lastEvent.executed[j] = lastEvent.errors[i]

\* the first of two matching policies raised an error and the second ran
C12_Witness ==
  /\ lastEvent.found = <<"p1", "p2">>
  /\ lastEvent.errors = <<"p1">>
  /\ lastEvent.executed = <<"p1", "p2">>

\* C13: an event whose payload has no tenantId is dropped, with no policy
\* looked up, gated or executed for it; and no event makes handleEvent
\* end with an exception.
C13_TenantlessEventIsDropped ==
  lastEvent.triggerType # "none" =>
    /\ lastEvent.raised = NoError
    /\ ~Truthy(Get(lastEvent.triggerData, "tenantId")) =>
         /\ lastEvent.dropped
         /\ lastEvent.found = << >>
         /\ lastEvent.executed = << >>
         /\ lastEvent.skipped = << >>

\* an event without tenantId was handled
C13_Witness ==
  /\ lastEvent.triggerType # "none"
  /\ Get(lastEvent.triggerData, "tenantId") = Undefined
  /\ lastEvent.dropped

\* C14: every access_review.completed event completeCampaign emits is
\* received by the policy engine: the emission leads to handleEvent being
\* called with the event's payload, for the campaign's tenant.
C14_CompletionReachesEngine ==
  \A i \in 1..Len(lastReview.events) :
    lastReview.events[i].topic = "access_review.completed" =>
      /\ lastEvent.triggerData = lastReview.events[i].payload
      /\ Get(lastEvent.triggerData, "tenantId") = Str(EngineTenant)

\* C15: once submitDecision has persisted the decision 'revoked' and the
\* call has ended, by returning or by throwing, the item's executionStatus
\* is 'completed' or 'failed', never 'pending', whichever storage call
\* rejected.
C15_RevokedItemIsNeverPending ==
  \A i \in 1..Len(reviewItems) :
    reviewItems[i].decision = "revoked" => reviewItems[i].executionStatus # "pending"

\* the status changes the campaign state machine has
StatusSteps == {<<"draft", "active">>, <<"active", "completed">>}

\* C17: a campaign is created 'draft', generateReviewItems makes it
\* 'active', completeCampaign makes it 'completed', and no call moves a
\* campaign backwards or from 'draft' to 'completed'.
C17_StatusOnlyAdvances ==
  [][/\ \A c \in 1..Len(campaigns) :
         campaigns'[c].status # campaigns[c].status =>
           <<campaigns[c].status, campaigns'[c].status>> \in StatusSteps
     /\ \A c \in (Len(campaigns) + 1)..Len(campaigns') : campaigns'[c].status = "draft"]_vars

\* C18: in every state a campaign holds at most one review item for a
\* user and an app, and its totalItems is the number of items it holds,
\* also after generateReviewItems ran more than once on it.
C18_OneItemPerAccessAndTotalItems ==
  \A c \in 1..Len(campaigns) :
    /\ campaigns[c].totalItems = Cardinality(ItemsOf(reviewItems, c))
    /\ \A i, j \in ItemsOf(reviewItems, c) :
         (reviewItems[i].userId = reviewItems[j].userId
            /\ reviewItems[i].appId = reviewItems[j].appId) => i = j

\* C16: submitBulkDecision never raises, and what fails for one item does
\* not reach the others: in a bulk 'revoked', every item handled without
\* a rejected call ends 'completed' with the decision persisted, and the
\* item whose access removal is rejected ends 'failed' with the error
\* captured.
C16_BulkItemsAreIndependent ==
  unitCall.done =>
    /\ unitCall.raised = NoError
    /\ \A k \in 1..Len(unitCall.itemIds) :
         LET id == unitCall.itemIds[k]
         IN  (id \in 1..Len(reviewItems) /\ unitCall.decision = "revoked") =>
               /\ unitCall.faults[k] = {} =>
                    /\ reviewItems[id].decision = "revoked"
                    /\ reviewItems[id].executionStatus = "completed"
               /\ unitCall.faults[k] = {"revoke"} =>
                    /\ reviewItems[id].decision = "revoked"
                    /\ reviewItems[id].executionStatus = "failed"
                    /\ reviewItems[id].executionError = RevokeError

\* a bulk 'revoked' over three items ended, the access removal of the
\* second one having been rejected
C16_Witness ==
  /\ unitCall.done
  /\ unitCall.decision = "revoked"
  /\ unitCall.itemIds = <<1, 2, 3>>
  /\ unitCall.faults = <<{}, {"revoke"}, {}>>
  /\ reviewItems[2].executionStatus = "failed"
  /\ reviewItems[3].executionStatus = "completed"

\* C19: every catalog entry processApp creates, for a discovered app
\* with no catalog match, has approvalStatus 'pending', never 'approved',
\* whatever the risk score and the recommended action.
C19_CreatedEntryIsPending ==
  lastProcess.created =>
    /\ lastProcess.appId = Len(catalog)
    /\ catalog[lastProcess.appId].approvalStatus = "pending"
    /\ catalog[lastProcess.appId].name = lastProcess.app.name

\* an entry was created for an app of low risk, which the analysis
\* recommends to approve
C19_Witness ==
  /\ lastProcess.created
  /\ catalog[lastProcess.appId].riskScore < 50
  /\ catalog[lastProcess.appId].approvalStatus = "pending"

\* C20: every risk score of the detector lies in 0..100: calculateRiskScore
\* caps its sum at 100 and analyzeApp caps the score of a denied app,
\* raised by 30, at 100, so that no score stored on a catalog entry or
\* emitted in an event is above 100.
C20_RiskScoreWithinRange ==
  unitCall.done =>
    /\ calculateRiskScore(unitCall.discoveredApp).score \in 0..100
    /\ unitCall.analysis.riskScore \in 0..100
    /\ \A i \in 1..Len(unitCall.result.catalog) :
         unitCall.result.catalog[i].riskScore \in 0..100
    /\ \A i \in 1..Len(unitCall.result.events) :
         Get(unitCall.result.events[i].payload, "riskScore").v \in 0..100

\* an app whose penalties add up to more than 100 was processed, and the
\* entry created for it and the event emitted carry the score 100
C20_Witness ==
  /\ unitCall.done
  /\ calculateRiskScoreUncapped(unitCall.discoveredApp).score > 100
  /\ unitCall.result.created
  /\ unitCall.result.catalog[unitCall.result.appId].riskScore = 100
  /\ Len(unitCall.result.events) = 2
  /\ Get(unitCall.result.events[1].payload, "riskScore") = Num(100)

\* C21: analyzeApp classifies by the match and the matched entry's status.
\* Without a match the app is a new discovery, unapproved, with the score
\* of calculateRiskScore and the action 'investigate' from 75, 'review'
\* from 50 and 'approve' below; a match with a denied entry is unapproved,
\* scored min(score + 30, 100), action 'deny'; with a pending entry
\* unapproved, action 'review'; with an approved entry approved, action
\* 'approve'.
C21_AnalyzeAppClassifies ==
  unitCall.done =>
    LET analysis == unitCall.analysis
        matched == findMatchingApp(unitCall.apps, unitCall.discoveredApp)
        score == calculateRiskScore(unitCall.discoveredApp).score
    IN  /\ analysis.matchedAppId = matched
        /\ matched = 0 =>
             /\ analysis.isNewDiscovery
             /\ analysis.isUnapproved
             /\ analysis.riskScore = score
             /\ score >= 75 => analysis.recommendedAction = "investigate"
             /\ (score >= 50 /\ score < 75) => analysis.recommendedAction = "review"
             /\ score < 50 => analysis.recommendedAction = "approve"
        /\ matched # 0 =>
             /\ ~analysis.isNewDiscovery
             /\ unitCall.apps[matched].approvalStatus = "denied" =>
                  /\ analysis.isUnapproved
                  /\ analysis.riskScore = Min(score + 30, 100)
                  /\ analysis.recommendedAction = "deny"
             /\ unitCall.apps[matched].approvalStatus = "pending" =>
                  /\ analysis.isUnapproved
                  /\ analysis.riskScore = score
                  /\ analysis.recommendedAction = "review"
             /\ unitCall.apps[matched].approvalStatus = "approved" =>
                  /\ ~analysis.isUnapproved
                  /\ analysis.riskScore = score
                  /\ analysis.recommendedAction = "approve"

\* an unmatched app scored exactly 75 was analysed, and so was an app of
\* score 75 matched with a denied entry, whose score is capped
C21_Witness ==
  /\ unitCall.done
  /\ calculateRiskScore(unitCall.discoveredApp).score = 75
  /\ \/ /\ unitCall.analysis.matchedAppId = 0
        /\ unitCall.analysis.recommendedAction = "investigate"
     \/ /\ unitCall.analysis.recommendedAction = "deny"
        /\ unitCall.analysis.riskScore = 100

\* the riskLevel bucket of a score: 'critical' from 75, 'high' from 50,
\* 'medium' from 25, else 'low'
RiskLevelOf(score) ==
  IF score >= 75 THEN "critical"
  ELSE IF score >= 50 THEN "high"
  ELSE IF score >= 25 THEN "medium"
  ELSE "low"

\* C22: whenever processApp handles an app classified unapproved (a new
\* discovery, or a match with a denied or a pending entry) it publishes
\* app.discovered for the tenant with the riskLevel bucket of the score;
\* for an app classified approved it publishes nothing.
C22_UnapprovedAppIsPublished ==
  unitCall.done =>
    LET analysis == unitCall.analysis
        events == unitCall.result.events
    IN  /\ analysis.isUnapproved =>
             \E i \in 1..Len(events) :
               /\ events[i].topic = "app.discovered"
               /\ Get(events[i].payload, "tenantId") = Str(EngineTenant)
               /\ Get(events[i].payload, "riskLevel") = Str(RiskLevelOf(analysis.riskScore))
        /\ ~analysis.isUnapproved => events = << >>

\* the apps of the batch whose processing completed without error
Completed(call) == {k \in 1..Len(call.discoveredApps) : call.persisting[k]}

\* C23: in processApps an error while processing one app does not abort
\* the batch, and appsCreated, appsUpdated and shadowITDetected count only
\* the apps whose processing completed: an app whose analysis succeeds and
\* whose persistence throws adds to none of the three.
C23_CountersCountCompletedApps ==
  unitCall.done =>
    /\ unitCall.result.raised = NoError
    /\ Len(unitCall.result.analysed) = Len(unitCall.discoveredApps)
    /\ unitCall.result.appsCreated + unitCall.result.appsUpdated
         = Cardinality(Completed(unitCall))
    /\ unitCall.result.shadowITDetected
         = Cardinality({k \in Completed(unitCall) : unitCall.result.analysed[k]})

\* the catalog entries whose normalized name is that of the app
EntriesFor(apps, discoveredApp) ==
  {i \in 1..Len(apps) : normalizeAppName(apps[i].name) = normalizeAppName(discoveredApp.name)}

ExactAt(apps, discoveredApp, i) ==
  normalizeAppName(apps[i].name) = normalizeAppName(discoveredApp.name)

\* the app names a vendor and entry i has that vendor, both normalized
VendorAt(apps, discoveredApp, i) ==
  /\ discoveredApp.vendor # << >>
  /\ apps[i].vendor # << >>
  /\ normalizeAppName(apps[i].vendor) = normalizeAppName(discoveredApp.vendor)

\* one normalized name contains the other and both have 4 characters or more
SubstringAt(apps, discoveredApp, i) ==
  /\ \/ StringIncludes(normalizeAppName(apps[i].name), normalizeAppName(discoveredApp.name))
     \/ StringIncludes(normalizeAppName(discoveredApp.name), normalizeAppName(apps[i].name))
  /\ Len(normalizeAppName(apps[i].name)) >= 4
  /\ Len(normalizeAppName(discoveredApp.name)) >= 4

\* C25: findMatchingApp applies its three tiers in strict order over the
\* whole catalog: an entry of equal normalized name if there is one;
\* otherwise an entry of equal normalized vendor if the app names a vendor
\* and there is one; otherwise an entry whose normalized name contains or
\* is contained in the app's, both of 4 characters or more; otherwise no
\* match. A lower tier is never used when a higher one matches anywhere.
C25_TiersInStrictOrder ==
  unitCall.done =>
    LET apps == unitCall.apps
        app == unitCall.discoveredApp
        entries == 1..Len(apps)
        found == unitCall.result
    IN  IF \E i \in entries : ExactAt(apps, app, i)
          THEN found \in entries /\ ExactAt(apps, app, found)
        ELSE IF \E i \in entries : VendorAt(apps, app, i)
          THEN found \in entries /\ VendorAt(apps, app, found)
        ELSE IF \E i \in entries : SubstringAt(apps, app, i)
          THEN found \in entries /\ SubstringAt(apps, app, found)
        ELSE found = 0

\* the second entry was returned for its name although the first entry
\* has the app's vendor, and a name of 3 characters contained in the
\* app's was not matched
C25_Witness ==
  /\ unitCall.done
  /\ Len(unitCall.apps) = 2
  /\ \/ /\ unitCall.result = 2
        /\ VendorAt(unitCall.apps, unitCall.discoveredApp, 1)
        /\ ~ExactAt(unitCall.apps, unitCall.discoveredApp, 1)
     \/ /\ unitCall.result = 0
        /\ unitCall.discoveredApp.name = BoxHQ
        /\ unitCall.apps[1].name = Box

\* C26: within one executePolicy run the handlers are called one after
\* another in list order: a handler is started only when every handler
\* started before it has returned or thrown, so at most one action of the
\* execution is in flight.
C26_ActionsRunOneAtATime ==
  /\ Cardinality(unitCall.inFlight) <= 1
  /\ \A i \in 1..Len(unitCall.started) :
       /\ i < Len(unitCall.started) =>
            /\ unitCall.started[i] < unitCall.started[i + 1]
            /\ \E j \in 1..Len(unitCall.settled) : unitCall.settled[j] = unitCall.started[i]
       /\ unitCall.started[i] \notin unitCall.inFlight =>
            \E j \in 1..Len(unitCall.settled) : unitCall.settled[j] = unitCall.started[i]

\* the handler of the second action is running, the first one having
\* thrown
C26_Witness ==
  /\ unitCall.started = <<1, 2>>
  /\ unitCall.settled = <<1>>
  /\ unitCall.inFlight = {2}
  /\ unitCall.ex.actionsFailed = 1

\* the factor of the app's risk score: 30 from 75, 20 from 50, 10 from 25
AppFactor(call) ==
  CASE call.app.riskScore >= 75 -> 30
    [] call.app.riskScore >= 50 /\ call.app.riskScore < 75 -> 20
    [] call.app.riskScore >= 25 /\ call.app.riskScore < 50 -> 10
    [] OTHER -> 0

\* the factor of staleness: 30 above 180 days, 20 above 90, 10 above 30,
\* nothing when the last use is unknown
StaleFactor(call) ==
  CASE call.daysSinceLastUse = Null -> 0
    [] call.daysSinceLastUse # Null /\ call.daysSinceLastUse.v > 180 -> 30
    [] call.daysSinceLastUse # Null /\ call.daysSinceLastUse.v \in 91..180 -> 20
    [] call.daysSinceLastUse # Null /\ call.daysSinceLastUse.v \in 31..90 -> 10
    [] OTHER -> 0

\* the sum of the four factors
FactorSum(call) ==
  AppFactor(call) + StaleFactor(call)
    + (IF call.access.accessType \in {"admin", "owner"} THEN 25 ELSE 0)
    + (IF call.access.businessJustification = "" THEN 10 ELSE 0)

\* C27: calculateRiskLevel maps the sum of the four factors (app risk
\* score tier, admin or owner access, staleness, missing justification) to
\* 'critical' from 60, 'high' from 40, 'medium' from 20, else 'low'; admin
\* access to an app of score 80, unused for 200 days, without
\* justification, sums to 95 and is 'critical'.
C27_RiskLevelFromFactorSum ==
  unitCall.done =>
    /\ unitCall.result = "critical" <=> FactorSum(unitCall) >= 60
    /\ unitCall.result = "high" <=> FactorSum(unitCall) \in 40..59
    /\ unitCall.result = "medium" <=> FactorSum(unitCall) \in 20..39
    /\ unitCall.result = "low" <=> FactorSum(unitCall) < 20
    /\ (/\ unitCall.access.accessType = "admin"
        /\ unitCall.app.riskScore = 80
        /\ unitCall.daysSinceLastUse = Num(200)
        /\ unitCall.access.businessJustification = "") =>
         /\ FactorSum(unitCall) = 95
         /\ AccessRiskScore(unitCall.app, unitCall.access, unitCall.daysSinceLastUse) = 95
         /\ unitCall.result = "critical"

\* the scenario of the claim was computed
C27_Witness ==
  /\ unitCall.done
  /\ unitCall.access.accessType = "admin"
  /\ unitCall.app.riskScore = 80
  /\ unitCall.daysSinceLastUse = Num(200)
  /\ unitCall.access.businessJustification = ""
  /\ unitCall.result = "critical"

\* C29: in every state a review item whose executionStatus is 'completed'
\* or 'failed' has the decision 'revoked', also after a second decision
\* on an item already decided.
C29_ExecutedItemIsRevoked ==
  \A i \in 1..Len(reviewItems) :
    reviewItems[i].executionStatus \in {"completed", "failed"} =>
      reviewItems[i].decision = "revoked"

\* the counters of campaign c are those of the items it holds
CountersAgree(c) ==
  LET held == ItemsOf(reviewItems, c)
      Deciding(decision) == Cardinality({i \in held : reviewItems[i].decision = decision})
  IN  /\ campaigns[c].reviewedItems
           = Cardinality({i \in held : reviewItems[i].decision # "pending"})
      /\ campaigns[c].reviewedItems
           = campaigns[c].approvedItems + campaigns[c].revokedItems + campaigns[c].deferredItems
      /\ campaigns[c].approvedItems = Deciding("approved")
      /\ campaigns[c].revokedItems = Deciding("revoked")
      /\ campaigns[c].deferredItems = Deciding("deferred")

\* C28: whenever no submitDecision call is in flight for a campaign, its
\* stored counters agree with its items (reviewedItems is the number of
\* decided items and the sum of approvedItems, revokedItems and
\* deferredItems, each the number of items of that decision), for calls
\* one after another and for every interleaving of concurrent calls.
C28_CountersAgreeWhenQuiescent ==
  (\A c \in Callers : ~InFlight(unitCall[c])) =>
    \A c \in 1..Len(campaigns) : CountersAgree(c)

====
